---------------------------- MODULE Spec2Model ----------------------------
(***************************************************************************)
(* A model of the rumi agent runtime: the per-chat SessionManager with the *)
(* Telegram handlers that drive it, the AgentLoop think/act/observe state  *)
(* machine with its circuit breakers, and the SkillManager with the tool   *)
(* registry it dispatches through.                                         *)
(*                                                                         *)
(* Several specifications share the module, each moving one group of       *)
(* variables: SessionSpec, HandlerSpec, PersistSpec, ExpirySpec and        *)
(* FrameSpec the sessions, Spec and LogSpec the agent loop, SkillSpec,     *)
(* EquivSpec, DispatchSpec, AvailSpec, RegisterSpec and DiscoverSpec the   *)
(* skills.                                                                 *)
(***************************************************************************)
EXTENDS Integers, Sequences, FiniteSets, TLC

(***************************************************************************)
(* Bounds of the model.                                                    *)
(***************************************************************************)
NumTasks == 2       \* message-handler invocations that can be started
MaxTurns == 2       \* largest max_turns a configuration is drawn with
MaxErrors == 2      \* largest max_consecutive_errors
MaxRepeat == 3      \* largest max_repeated_calls
MaxBatch == 2       \* most tool calls in one model response
MaxEdits == 2       \* writes and deletions of skill definition files
MaxRegs == 3        \* most skills one client registers in a row
MaxMsgs == 2        \* most messages a client adds to one session

Chats == {"c1", "c2"}
Tasks == 1..NumTasks

NoSession == [absent |-> TRUE]
NoChat == "none"
None == "None"

VARIABLES
    sessions,       \* SessionManager._sessions: chat -> SessionState or NoSession
    locks,          \* SessionManager._locks: chat -> "none" (no entry), "free", "held"
    busy,           \* SessionManager._busy
    skeys,          \* the keys of SessionManager._sessions, in insertion order
    disk,           \* sessions_dir: chat -> the session file, NoSession for none
    containers,     \* the chats that have a sandbox container
    hpc,            \* position of each _handle_message invocation
    hchat,          \* chat id of each running _handle_message invocation
    resetPending,   \* chats whose _handle_reset awaits on_session_end
    phase           \* history, per chat: the last of a successful acquire
                    \* ("acquired"), a destroy_session after it ("destroyed") and
                    \* a release ("released"); "none" before all of them

sessVars == <<sessions, skeys, locks, busy, disk, containers, hpc, hchat,
             resetPending, phase>>

VARIABLES
    max_turns, max_consecutive_errors, max_repeated_calls,    \* AgentConfig
    last_tool_call, repeated_count, consecutive_errors,       \* AgentLoop fields
    pc,                 \* position in run: idle, think, act, dispatching, done, raised
    turn,               \* the loop variable of run
    batch,              \* assistant_message.tool_calls of the current turn
    idx,                \* position in batch
    final_response,
    tool_calls_log,     \* number of records in tool_calls_log
    messages,           \* roles of the outbound message list, the history
                        \* entries (copied in once, never touched again) left out
    result,             \* the AgentResult returned, NoResult before
    chat_id,            \* the chat_id argument of run, None when not given
    conv_log,           \* the agent_stop events this run wrote to the conversation log
    stale,              \* history: this run began on an instance on which an
                        \* earlier run had left a last call and counted errors
    last_response,      \* history: the latest model response of this run
    llm_calls,          \* history: model calls made in this run
    last_text,          \* history: last non-empty assistant text of this run
    seen_prev,          \* history: the previous call record seen in this run
    same_streak,        \* history: how many calls in a row equal the last seen
    fail_streak,        \* history: failed dispatches since the last success
    n_dispatched,       \* history: dispatches started in this run
    n_counted,          \* history: dispatch results counted in this run
    turn_dispatched,    \* history: call records dispatched in this turn
    all_prev_dispatched \* history: every call of every earlier turn was dispatched

loopVars == <<max_turns, max_consecutive_errors, max_repeated_calls,
              last_tool_call, repeated_count, consecutive_errors,
              pc, turn, batch, idx, final_response, tool_calls_log, messages,
              result, chat_id, conv_log, stale, last_response, llm_calls, last_text, seen_prev,
              same_streak, fail_streak, n_dispatched, n_counted, turn_dispatched,
              all_prev_dispatched>>

VARIABLES
    fs,               \* the skill directories: dir -> its definition file
    edits,            \* number of writes and deletions made to fs so far
    _registry,        \* SkillManager._registry: name -> Skill or NoSkill
    _mtimes,          \* SkillManager._mtimes: name -> mtime, 0 for no entry
    _skill_paths,     \* SkillManager._skill_paths, in insertion order
    disabled_skills,  \* SkillsConfig.disabled_skills, a list
    last,             \* history: the latest call and what it returned
    pending,          \* skills a caller is about to register, in order
    offered,          \* history: the skills passed to register so far
    _tools            \* ToolRegistry._tools: the registered tool names

skillVars == <<fs, edits, _registry, _mtimes, _skill_paths, disabled_skills,
               last, pending, offered, _tools>>

vars == <<sessVars, loopVars, skillVars>>

-----------------------------------------------------------------------------
(***************************************************************************)
(* SessionState and the SessionManager helpers.                            *)
(***************************************************************************)

\* A SessionState is the record of its messages, of its context and of idle,
\* which stands for its two timestamps: idle is TRUE when time.time() -
\* last_activity is more than ttl_seconds (is_expired reads nothing else of
\* them).  The context is {} ("empty") or holds one key, and is written as
\* the kind of value under that key.
ContextKinds == {"empty", "str", "list", "tuple", "set"}

\* SessionState(chat_id=chat_id): empty history, last_activity = time.time()
SessionState == [messages |-> <<>>, context |-> "empty", idle |-> FALSE]

\* SessionState.touch
touch(s) == [s EXCEPT !.idle = FALSE]

\* SessionState.is_expired
is_expired(s) == s.idle

\* a session file that json.load or from_dict does not take: text that is no
\* JSON, bytes that are no UTF-8, JSON that is no object, an object without
\* chat_id, an object with a key SessionState does not have
CorruptKinds == {"unparseable", "notutf8", "notobject", "nochatid", "unknownfield"}
Corrupt(kind) == [corrupt |-> kind]
IsCorrupt(f) == "corrupt" \in DOMAIN f

\* a session file that holds chat_id and nothing else
OnlyChatId == [only |-> "chat_id"]

\* SessionManager._save_session: json.dump(session.to_dict(), f) into the
\* file opened with "w".  A tuple is written as an array; a set stops the
\* dump with TypeError and leaves the part written so far.
save_raises(s) == s.context = "set"
_save_session(s) ==
    IF save_raises(s) THEN Corrupt("unparseable")
    ELSE [s EXCEPT !.context = IF @ = "tuple" THEN "list" ELSE @]

\* SessionManager._load_session: None when no file exists and when
\* json.load raises JSONDecodeError; every other exception leaves it
Loaded(s) == [raised |-> FALSE, session |-> s]
_load_session(c) ==
    IF disk[c] = NoSession THEN Loaded(NoSession)
    ELSE IF disk[c] = OnlyChatId THEN Loaded(SessionState)
    ELSE IF ~IsCorrupt(disk[c]) THEN Loaded(disk[c])
    ELSE IF disk[c].corrupt = "unparseable" THEN Loaded(NoSession)
    ELSE [raised |-> TRUE, session |-> NoSession]

\* SessionManager.get_session, as the _sessions map it leaves behind, and
\* the order of its keys
get_session_raises(ss, c) == ss[c] = NoSession /\ _load_session(c).raised
get_session(ss, c) ==
    IF ss[c] = NoSession
    THEN [ss EXCEPT ![c] = IF _load_session(c).session = NoSession
                           THEN SessionState
                           ELSE _load_session(c).session]
    ELSE ss
keys_after_get(c) == IF sessions[c] = NoSession THEN Append(skeys, c) ELSE skeys

\* SessionManager.is_busy
is_busy(c) == c \in busy

\* asyncio.Lock.locked() of the lock get_lock returns (a new lock is free)
locked(c) == locks[c] = "held"

\* SessionManager.acquire: the two early returns
AcquireSucceeds(c) == ~is_busy(c) /\ ~locked(c)

\* SessionManager.add_message, as the _sessions map it leaves behind
add_message(ss, c, role, content) ==
    LET ss1 == get_session(ss, c)
    IN [ss1 EXCEPT ![c] = touch([ss1[c] EXCEPT !.messages =
                                    Append(@, role)])]

\* SessionManager.set_context, as the _sessions map it leaves behind
set_context_everywhere(ss, c, value) ==
    LET ss1 == get_session(ss, c)
    IN [x \in Chats |-> IF ss1[x] = NoSession THEN NoSession
                        ELSE touch([ss1[x] EXCEPT !.context = value])]
set_context(ss, c, value) ==
    LET ss1 == get_session(ss, c)
    IN [ss1 EXCEPT ![c] = touch([ss1[c] EXCEPT !.context = value])]

\* SessionManager.release: self._busy.discard(chat_id)
BusyMissedDiscard(c) == busy
BusyAfterRelease(c) == busy \ {c}

\* SessionManager.release: lock.release() if the entry exists and is locked
LocksStayHeld(c) == locks
LocksAfterRelease(c) == IF locks[c] = "held" THEN [locks EXCEPT ![c] = "free"] ELSE locks

\* SessionManager.release: _save_session if the chat is in _sessions
DiskAfterRelease(c) ==
    IF sessions[c] # NoSession THEN [disk EXCEPT ![c] = _save_session(sessions[c])]
    ELSE disk

\* SessionManager.release: does _save_session, its last statement, raise
release_raises(c) == sessions[c] # NoSession /\ save_raises(sessions[c])

\* SessionManager.release
release(c) ==
    /\ busy' = BusyAfterRelease(c)
    /\ locks' = LocksAfterRelease(c)
    /\ disk' = DiskAfterRelease(c)
    /\ phase' = [phase EXCEPT ![c] = "released"]

\* the manager, its directory and the sandbox as one value
Store == [sessions |-> sessions, skeys |-> skeys, locks |-> locks, busy |-> busy,
          disk |-> disk, containers |-> containers]
Becomes(S) ==
    /\ sessions' = S.sessions
    /\ skeys' = S.skeys
    /\ locks' = S.locks
    /\ busy' = S.busy
    /\ disk' = S.disk
    /\ containers' = S.containers

\* where a destroy_session can raise: path.unlink (OSError) and the Docker
\* client of destroy_container (any error but NotFound)
FailPoints == {"no", "unlink", "sandbox"}

Without(keys, c) == SelectSeq(keys, LAMBDA k : k # c)

\* SessionManager.destroy_session: the state it leaves, and whether it raised
destroy_keeps_file(S, c, fail) ==
    [S |-> [S EXCEPT !.sessions[c] = NoSession, !.skeys = Without(@, c),
                     !.locks[c] = "none", !.busy = @ \ {c},
                     !.containers = @ \ {c}],
     raised |-> FALSE]
destroy_keeps_busy(S, c, fail) ==
    [S |-> [S EXCEPT !.sessions[c] = NoSession, !.skeys = Without(@, c),
                     !.locks[c] = "none", !.disk[c] = NoSession,
                     !.containers = @ \ {c}],
     raised |-> FALSE]
destroy_session(S, c, fail) ==
    LET forgotten == [S EXCEPT !.sessions[c] = NoSession, !.skeys = Without(@, c),
                               !.locks[c] = "none", !.busy = @ \ {c}]
        unlinked == [forgotten EXCEPT !.disk[c] = NoSession]
    IN CASE fail = "unlink" -> [S |-> forgotten, raised |-> TRUE]
         [] fail = "sandbox" -> [S |-> unlinked, raised |-> TRUE]
         [] OTHER -> [S |-> [unlinked EXCEPT !.containers = @ \ {c}],
                      raised |-> FALSE]

\* SessionManager.cleanup_expired: the loop over list(self._sessions.keys()),
\* fails[c] being what the destroy of c meets
RECURSIVE cleanup_loop(_, _, _, _)
cleanup_loop(S, chat_ids, fails, count) ==
    IF chat_ids = <<>> THEN [S |-> S, count |-> count, raised |-> FALSE]
    ELSE LET c == Head(chat_ids)
         IN IF S.sessions[c] # NoSession /\ is_expired(S.sessions[c])
            THEN LET d == destroy_session(S, c, fails[c])
                 IN IF d.raised THEN [S |-> d.S, count |-> count, raised |-> TRUE]
                    ELSE cleanup_loop(d.S, Tail(chat_ids), fails, count + 1)
            ELSE cleanup_loop(S, Tail(chat_ids), fails, count)

cleanup_first_only(S, fails) ==
    cleanup_loop(S, IF S.skeys = <<>> THEN <<>> ELSE <<Head(S.skeys)>>, fails, 0)
cleanup_expired(S, fails) == cleanup_loop(S, S.skeys, fails, 0)

\* history: the chats a call destroyed drop from "acquired" to "destroyed"
PhaseAfter(cs) == [c \in Chats |-> IF c \in cs /\ phase[c] = "acquired"
                                   THEN "destroyed" ELSE phase[c]]

\* history: the latest call of a handler or of a client, on chat c
SessCall(op, c, raised) == [op |-> op, ret |-> <<c>>, raised |-> raised]
NoSessCall == [op |-> "other", ret |-> <<>>, raised |-> FALSE]

-----------------------------------------------------------------------------
(***************************************************************************)
(* The handlers of the Telegram bot and the expiry sweep.                  *)
(***************************************************************************)

\* A record left on disk by an earlier process
OldRecord == [messages |-> <<"user">>, context |-> "empty", idle |-> FALSE]

\* a new SessionManager over a directory with the session files of files
InitSessOver(files) ==
    /\ sessions = [c \in Chats |-> NoSession]
    /\ skeys = <<>>
    /\ locks = [c \in Chats |-> "none"]
    /\ busy = {}
    /\ disk = files
    /\ containers = {}
    /\ hpc = [t \in Tasks |-> "new"]
    /\ hchat = [t \in Tasks |-> NoChat]
    /\ resetPending = {}
    /\ phase = [c \in Chats |-> "none"]

InitSess == InitSessOver([c \in Chats |-> IF c = "c1" THEN OldRecord ELSE NoSession])

\* what the session handlers leave alone
OutsideSessions ==
    /\ UNCHANGED loopVars
    /\ UNCHANGED <<fs, edits, _registry, _mtimes, _skill_paths, disabled_skills,
                   pending, offered, _tools>>

\* _handle_message up to its first await: acquire, and on success add_message
HandleMessage(t, c) ==
    /\ hpc[t] = "new"
    /\ \A u \in Tasks : u < t => hpc[u] # "new"
    /\ ~get_session_raises(sessions, c)
    /\ hchat' = [hchat EXCEPT ![t] = c]
    /\ IF AcquireSucceeds(c)
       THEN /\ locks' = [locks EXCEPT ![c] = "held"]
            /\ busy' = busy \cup {c}
            /\ sessions' = add_message(
                   [get_session(sessions, c) EXCEPT ![c] = touch(@)], c, "user", t)
            /\ skeys' = keys_after_get(c)
            /\ phase' = [phase EXCEPT ![c] = "acquired"]
            /\ hpc' = [hpc EXCEPT ![t] = "typing"]
       ELSE /\ hpc' = [hpc EXCEPT ![t] = "busyreply"]
            /\ UNCHANGED <<locks, busy, sessions, skeys, phase>>
    /\ last' = IF AcquireSucceeds(c) THEN SessCall("message", c, FALSE) ELSE NoSessCall
    /\ UNCHANGED <<disk, containers, resetPending>>
    /\ OutsideSessions

\* reply_text(error) returns, or raises out of the handler: no release either way
BusyReplyDone(t) ==
    /\ hpc[t] = "busyreply"
    /\ hpc' = [hpc EXCEPT ![t] = "done"]
    /\ hchat' = [hchat EXCEPT ![t] = NoChat]
    /\ last' = NoSessCall
    /\ UNCHANGED <<sessions, skeys, locks, busy, disk, containers, resetPending, phase>>
    /\ OutsideSessions

\* send_action("typing") returns and agent.run is entered
TypingDone(t) ==
    /\ hpc[t] = "typing"
    /\ hpc' = [hpc EXCEPT ![t] = "run"]
    /\ last' = NoSessCall
    /\ UNCHANGED <<sessions, skeys, locks, busy, disk, containers, hchat, resetPending,
                   phase>>
    /\ OutsideSessions

\* send_action("typing") raises: the except branch replies
TypingRaise(t) ==
    /\ hpc[t] = "typing"
    /\ hpc' = [hpc EXCEPT ![t] = "errreply"]
    /\ last' = NoSessCall
    /\ UNCHANGED <<sessions, skeys, locks, busy, disk, containers, hchat, resetPending,
                   phase>>
    /\ OutsideSessions

\* agent.run returns: add_message(assistant), then the reply is awaited
RunReturn(t) ==
    /\ hpc[t] = "run"
    /\ ~get_session_raises(sessions, hchat[t])
    /\ sessions' = add_message(sessions, hchat[t], "assistant", t)
    /\ skeys' = keys_after_get(hchat[t])
    /\ hpc' = [hpc EXCEPT ![t] = "reply"]
    /\ last' = SessCall("assistant", hchat[t], FALSE)
    /\ UNCHANGED <<locks, busy, disk, containers, hchat, resetPending, phase>>
    /\ OutsideSessions

\* agent.run raises (the model call failed): the except branch replies
RunRaise(t) ==
    /\ hpc[t] = "run"
    /\ hpc' = [hpc EXCEPT ![t] = "errreply"]
    /\ last' = NoSessCall
    /\ UNCHANGED <<sessions, skeys, locks, busy, disk, containers, hchat, resetPending,
                   phase>>
    /\ OutsideSessions

\* reply_text(response) raises: the except branch replies
ReplyRaise(t) ==
    /\ hpc[t] = "reply"
    /\ hpc' = [hpc EXCEPT ![t] = "errreply"]
    /\ last' = NoSessCall
    /\ UNCHANGED <<sessions, skeys, locks, busy, disk, containers, hchat, resetPending,
                   phase>>
    /\ OutsideSessions

\* the last reply of the handler returns or raises: finally releases
ReturnsWithoutRelease(t) ==
    /\ hpc[t] \in {"reply", "errreply"}
    /\ hpc' = [hpc EXCEPT ![t] = "done"]
    /\ hchat' = [hchat EXCEPT ![t] = NoChat]
    /\ last' = NoSessCall
    /\ UNCHANGED <<sessions, skeys, locks, busy, disk, containers, resetPending, phase>>
    /\ OutsideSessions
HandlerFinally(t) ==
    /\ hpc[t] \in {"reply", "errreply"}
    /\ release(hchat[t])
    /\ hpc' = [hpc EXCEPT ![t] = "done"]
    /\ hchat' = [hchat EXCEPT ![t] = NoChat]
    /\ last' = NoSessCall
    /\ UNCHANGED <<sessions, skeys, containers, resetPending>>
    /\ OutsideSessions

\* _handle_stop on a busy chat (on a chat that is not busy it only replies)
HandleStop(c) ==
    /\ is_busy(c)
    /\ release(c)
    /\ last' = SessCall("stop", c, FALSE)
    /\ UNCHANGED <<sessions, skeys, containers, hpc, hchat, resetPending>>
    /\ OutsideSessions

\* _handle_reset calls destroy_session, which can raise out of the handler
ResetDestroys(S, c) ==
    \E fail \in FailPoints :
        /\ Becomes(destroy_session(S, c, fail).S)
        /\ phase' = PhaseAfter({c})
        /\ last' = SessCall("reset", c, destroy_session(S, c, fail).raised)

\* _handle_reset up to its first await: get_messages loads the session
ResetBegin(c) ==
    /\ c \notin resetPending
    /\ ~get_session_raises(sessions, c)
    /\ LET ss == get_session(sessions, c)
       IN IF ss[c].messages # <<>>
          THEN /\ sessions' = ss
               /\ skeys' = keys_after_get(c)
               /\ resetPending' = resetPending \cup {c}
               /\ last' = NoSessCall
               /\ UNCHANGED <<locks, busy, disk, containers, phase>>
          ELSE /\ ResetDestroys([Store EXCEPT !.sessions = ss,
                                              !.skeys = keys_after_get(c)], c)
               /\ UNCHANGED resetPending
    /\ UNCHANGED <<hpc, hchat>>
    /\ OutsideSessions

\* _handle_reset after on_session_end: destroy_session
ResetFinish(c) ==
    /\ c \in resetPending
    /\ resetPending' = resetPending \ {c}
    /\ ResetDestroys(Store, c)
    /\ UNCHANGED <<hpc, hchat>>
    /\ OutsideSessions

\* cleanup_expired, one pass of _cleanup_loop, which swallows what it raises
Sweep ==
    /\ \E fails \in [Chats -> FailPoints] :
          LET r == cleanup_expired(Store, fails)
          IN /\ Becomes(r.S)
             /\ phase' = PhaseAfter({c \in Chats : /\ sessions[c] # NoSession
                                                   /\ r.S.sessions[c] = NoSession})
             /\ last' = [op |-> "cleanup_expired", ret |-> <<>>, raised |-> r.raised,
                         count |-> r.count]
    /\ UNCHANGED <<hpc, hchat, resetPending>>
    /\ OutsideSessions

\* more than ttl_seconds pass: every SessionState, in memory and on disk, has
\* now been idle for longer than the TTL
Aged(s) == IF s = NoSession \/ s = OnlyChatId \/ IsCorrupt(s) THEN s
           ELSE [s EXCEPT !.idle = TRUE]
Tick ==
    /\ sessions' = [c \in Chats |-> Aged(sessions[c])]
    /\ disk' = [c \in Chats |-> Aged(disk[c])]
    /\ last' = NoSessCall
    /\ UNCHANGED <<skeys, locks, busy, containers, hpc, hchat, resetPending, phase>>
    /\ OutsideSessions

NextSess ==
    \/ \E t \in Tasks, c \in Chats : HandleMessage(t, c)
    \/ \E t \in Tasks : BusyReplyDone(t)
    \/ \E t \in Tasks : TypingDone(t)
    \/ \E t \in Tasks : TypingRaise(t)
    \/ \E t \in Tasks : RunReturn(t)
    \/ \E t \in Tasks : RunRaise(t)
    \/ \E t \in Tasks : ReplyRaise(t)
    \/ \E t \in Tasks : HandlerFinally(t)
    \/ \E c \in Chats : HandleStop(c)
    \/ \E c \in Chats : ResetBegin(c)
    \/ \E c \in Chats : ResetFinish(c)
    \/ Sweep
    \/ Tick

-----------------------------------------------------------------------------
(***************************************************************************)
(* The SessionManager under the calls of any client.                       *)
(***************************************************************************)

\* SessionManager.get_session
GetSession(c) ==
    /\ IF get_session_raises(sessions, c)
       THEN UNCHANGED <<sessions, skeys>>
       ELSE /\ sessions' = get_session(sessions, c)
            /\ skeys' = keys_after_get(c)
    /\ last' = SessCall("get_session", c, get_session_raises(sessions, c))
    /\ UNCHANGED <<locks, busy, disk, containers, hpc, hchat, resetPending, phase>>
    /\ OutsideSessions

\* SessionManager.acquire: on success the lock is taken and the busy flag
\* set before get_session is called
Acquire(c) ==
    /\ IF ~AcquireSucceeds(c)
       THEN /\ UNCHANGED <<sessions, skeys, locks, busy, phase>>
            /\ last' = SessCall("busy", c, FALSE)
       ELSE /\ locks' = [locks EXCEPT ![c] = "held"]
            /\ busy' = busy \cup {c}
            /\ phase' = [phase EXCEPT ![c] = "acquired"]
            /\ last' = SessCall("acquire", c, get_session_raises(sessions, c))
            /\ IF get_session_raises(sessions, c)
               THEN UNCHANGED <<sessions, skeys>>
               ELSE /\ sessions' = [get_session(sessions, c) EXCEPT ![c] = touch(@)]
                    /\ skeys' = keys_after_get(c)
    /\ UNCHANGED <<disk, containers, hpc, hchat, resetPending>>
    /\ OutsideSessions

\* SessionManager.release
Release(c) ==
    /\ release(c)
    /\ last' = SessCall("release", c, release_raises(c))
    /\ UNCHANGED <<sessions, skeys, containers, hpc, hchat, resetPending>>
    /\ OutsideSessions

\* SessionManager.add_message
AddMessage(c, role) ==
    /\ ~get_session_raises(sessions, c)
    /\ Len(get_session(sessions, c)[c].messages) < MaxMsgs
    /\ sessions' = add_message(sessions, c, role, "")
    /\ skeys' = keys_after_get(c)
    /\ last' = SessCall("add_message", c, FALSE)
    /\ UNCHANGED <<locks, busy, disk, containers, hpc, hchat, resetPending, phase>>
    /\ OutsideSessions

\* SessionManager.set_context with a string, a tuple or a set as the value
SetContext(c, value) ==
    /\ ~get_session_raises(sessions, c)
    /\ sessions' = set_context(sessions, c, value)
    /\ skeys' = keys_after_get(c)
    /\ last' = SessCall("set_context", c, FALSE)
    /\ UNCHANGED <<locks, busy, disk, containers, hpc, hchat, resetPending, phase>>
    /\ OutsideSessions

\* SandboxManager.ensure_container for a chat
UseSandbox(c) ==
    /\ c \notin containers
    /\ containers' = containers \cup {c}
    /\ last' = NoSessCall
    /\ UNCHANGED <<sessions, skeys, locks, busy, disk, hpc, hchat, resetPending, phase>>
    /\ OutsideSessions

\* SessionManager.destroy_session
DestroySession(c) ==
    /\ \E fail \in FailPoints :
          /\ Becomes(destroy_session(Store, c, fail).S)
          /\ last' = SessCall("destroy_session", c, destroy_session(Store, c, fail).raised)
    /\ phase' = PhaseAfter({c})
    /\ UNCHANGED <<hpc, hchat, resetPending>>
    /\ OutsideSessions

\* the process ends and a new SessionManager is made over the same directory
Restart ==
    /\ sessions' = [c \in Chats |-> NoSession]
    /\ skeys' = <<>>
    /\ locks' = [c \in Chats |-> "none"]
    /\ busy' = {}
    /\ phase' = [c \in Chats |-> "none"]
    /\ last' = NoSessCall
    /\ UNCHANGED <<disk, containers, hpc, hchat, resetPending>>
    /\ OutsideSessions

\* the session files an earlier process, or anything else, can have left
InitRecords == {NoSession, OldRecord, OnlyChatId} \cup {Corrupt(k) : k \in CorruptKinds}

\* one chat under the calls that read and write its state and its file
NextPersist ==
    \/ GetSession("c1")
    \/ Acquire("c1")
    \/ Release("c1")
    \/ \E role \in {"user", "assistant"} : AddMessage("c1", role)
    \/ \E value \in {"str", "tuple", "set"} : SetContext("c1", value)
    \/ Restart

\* the chats under the calls that work on one chat
NextFrame ==
    \/ \E c \in Chats : Acquire(c)
    \/ \E c \in Chats : Release(c)
    \/ \E c \in Chats : AddMessage(c, "user")
    \/ \E c \in Chats : SetContext(c, "str")
    \/ \E c \in Chats : DestroySession(c)

\* the chats under the calls that end sessions
NextExpiry ==
    \/ \E c \in Chats : Acquire(c)
    \/ \E c \in Chats : Release(c)
    \/ \E c \in Chats : UseSandbox(c)
    \/ \E c \in Chats : DestroySession(c)
    \/ Sweep
    \/ Tick

-----------------------------------------------------------------------------
(***************************************************************************)
(* The skills: SkillSource, the definition files, and the SkillManager     *)
(* with its registry cache.                                                *)
(***************************************************************************)

SkillNames == {"s1", "s2"}
Dirs == {"b1", "b2", "u1"}
NoSkill == [absent |-> TRUE]
NoPath == "none"

\* SkillSource and SkillSource.priority
SkillSource == {"BUNDLED", "USER", "WORKSPACE"}
priority(source) == CASE source = "BUNDLED" -> 1
                      [] source = "USER" -> 2
                      [] source = "WORKSPACE" -> 3

\* SkillsConfig: b1 and b2 lie under bundled_dir, u1 under user_dir
DirSource(d) == IF d = "u1" THEN "USER" ELSE "BUNDLED"

\* A skill directory is its SKILL.md (with skill.py when there is one): what
\* loading it meets, the front matter fields the manager reads, and st_mtime.
NoFile == [kind |-> "absent", name |-> None, enabled |-> FALSE,
           tools_required |-> <<>>, mtime |-> 0]
OkFile(n, en, req, t) == [kind |-> "ok", name |-> n, enabled |-> en,
                          tools_required |-> req, mtime |-> t]
BadFile(k, t) == [kind |-> k, name |-> None, enabled |-> FALSE,
                  tools_required |-> <<>>, mtime |-> t]
BadKinds == {"noname", "nodesc", "malformed", "oserror", "badpy", "baddecode", "badinit"}

\* (skill_dir / "SKILL.md").exists()
exists(d) == fs[d].kind # "absent"

\* parse_skill_file and load_code_skill: the exception loading the directory
\* ends with, None when it loads
LoadRaises(kind) ==
    CASE kind = "ok" -> None
      [] kind \in {"noname", "nodesc"} -> "SkillValidationError"
      [] kind = "malformed" -> "SkillParseError"
      [] kind = "oserror" -> "SkillParseError"
      [] kind = "badpy" -> "CodeSkillLoadError"
      [] kind = "baddecode" -> "UnicodeDecodeError"
      [] kind = "badinit" -> "ValueError"

\* except (SkillParseError, CodeSkillLoadError)
Caught(exc) == exc \in {"SkillParseError", "SkillValidationError", "CodeSkillLoadError"}

\* SkillManager.load_skill: the Skill built from the file as it is now; rev
\* stands for the text of the file (every write makes a new one)
load_skill(d, source) ==
    [name |-> fs[d].name, enabled |-> fs[d].enabled,
     tools_required |-> fs[d].tools_required, source |-> source,
     path |-> d, rev |-> fs[d].mtime]

\* a Skill built in code, with no definition file
CodeSkill(n, source, en, req) ==
    [name |-> n, enabled |-> en, tools_required |-> req, source |-> source,
     path |-> NoPath, rev |-> 0]

\* the keys, the lookup, the assignment and the pop of the _skill_paths dict
PathKeys(paths) == {paths[i].name : i \in DOMAIN paths}
PathOf(paths, n) ==
    IF n \in PathKeys(paths)
    THEN (paths[CHOOSE i \in DOMAIN paths : paths[i].name = n]).dir
    ELSE NoPath
SetPath(paths, n, d) ==
    IF n \in PathKeys(paths)
    THEN [i \in DOMAIN paths |-> IF paths[i].name = n THEN [name |-> n, dir |-> d]
                                 ELSE paths[i]]
    ELSE Append(paths, [name |-> n, dir |-> d])
has_other_name(item, n) == item.name # n
DelPath(paths, n) ==
    LET keep(item) == has_other_name(item, n) IN SelectSeq(paths, keep)

\* the manager's three maps, as one value
Manager == [reg |-> _registry, mt |-> _mtimes, paths |-> _skill_paths]
EmptyManager == [reg |-> [n \in SkillNames |-> NoSkill],
                 mt |-> [n \in SkillNames |-> 0],
                 paths |-> <<>>]

\* SkillManager.register: should_register
replaces_on_tie(skill, existing) ==
    existing = NoSkill \/ priority(skill.source) >= priority(existing.source)
should_register(skill, existing) ==
    existing = NoSkill \/ priority(skill.source) > priority(existing.source)

\* SkillManager.register
register(M, skill, skill_dir) ==
    IF ~should_register(skill, M.reg[skill.name]) THEN M
    ELSE [reg |-> [M.reg EXCEPT ![skill.name] = skill],
          paths |-> IF skill_dir # NoPath THEN SetPath(M.paths, skill.name, skill_dir)
                    ELSE M.paths,
          mt |-> IF skill_dir # NoPath /\ exists(skill_dir)
                 THEN [M.mt EXCEPT ![skill.name] = fs[skill_dir].mtime]
                 ELSE M.mt]

\* SkillManager.unregister
unregister_keeps_mtime(M, n) ==
    [reg |-> [M.reg EXCEPT ![n] = NoSkill], mt |-> M.mt, paths |-> DelPath(M.paths, n)]
unregister(M, n) ==
    [reg |-> [M.reg EXCEPT ![n] = NoSkill],
     mt |-> [M.mt EXCEPT ![n] = 0],
     paths |-> DelPath(M.paths, n)]

\* SkillManager.clear_cache
clear_cache == EmptyManager

\* SkillManager.discover over the directories _scan_skill_dirs yields, in the
\* order scanned: the manager it leaves, the names appended to discovered,
\* and whether an exception left it
RECURSIVE discover(_, _, _)
discover(M, scan, discovered) ==
    IF scan = <<>> THEN [M |-> M, ret |-> discovered, raised |-> FALSE]
    ELSE LET d == Head(scan)
             exc == LoadRaises(fs[d].kind)
         IN IF exc = None
            THEN discover(register(M, load_skill(d, DirSource(d)), d), Tail(scan),
                          Append(discovered, fs[d].name))
            ELSE IF Caught(exc) THEN discover(M, Tail(scan), discovered)
            ELSE [M |-> M, ret |-> discovered, raised |-> TRUE]

\* _scan_skill_dirs for the three roots in turn: bundled, user, workspace;
\* iterdir gives the directories of one root in any order
Perms(S) == {f \in [1..Cardinality(S) -> S] : \A i, j \in DOMAIN f : f[i] = f[j] => i = j}
Scanned(source) == {d \in Dirs : DirSource(d) = source /\ exists(d)}
ScanOrders == {b \o u \o w : b \in Perms(Scanned("BUNDLED")),
                             u \in Perms(Scanned("USER")),
                             w \in Perms(Scanned("WORKSPACE"))}

\* SkillManager.refresh_changed over list(self._skill_paths.items())
reload(M, n, skill, t) == [M EXCEPT !.reg[n] = skill, !.mt[n] = t]

RECURSIVE refresh_changed(_, _, _)
refresh_changed(M, items, reloaded) ==
    IF items = <<>> THEN [M |-> M, ret |-> reloaded, raised |-> FALSE]
    ELSE LET n == Head(items).name
             skill_dir == Head(items).dir
         IN IF ~exists(skill_dir)
            THEN refresh_changed(unregister(M, n), Tail(items), reloaded)
            ELSE IF fs[skill_dir].mtime > M.mt[n]
            THEN IF M.reg[n] = NoSkill
                 THEN refresh_changed(M, Tail(items), reloaded)
                 ELSE LET exc == LoadRaises(fs[skill_dir].kind)
                      IN IF exc = None
                         THEN refresh_changed(
                                  reload(M, n, load_skill(skill_dir, M.reg[n].source),
                                         fs[skill_dir].mtime),
                                  Tail(items), Append(reloaded, n))
                         ELSE IF Caught(exc)
                         THEN refresh_changed(M, Tail(items), reloaded)
                         ELSE [M |-> M, ret |-> reloaded, raised |-> TRUE]
            ELSE refresh_changed(M, Tail(items), reloaded)

-----------------------------------------------------------------------------
(***************************************************************************)
(* Skill availability and execution, and the ToolRegistry with its         *)
(* dispatch.                                                               *)
(***************************************************************************)

Range(f) == {f[i] : i \in DOMAIN f}

\* SkillManager.get
get(n) == IF n \in SkillNames THEN _registry[n] ELSE NoSkill

\* SkillManager.is_skill_available
available_ignores_config(n) ==
    IF get(n) = NoSkill THEN FALSE
    ELSE IF ~get(n).enabled THEN FALSE
    ELSE TRUE
is_skill_available(n) ==
    IF get(n) = NoSkill THEN FALSE
    ELSE IF ~get(n).enabled THEN FALSE
    ELSE IF n \in Range(disabled_skills) THEN FALSE
    ELSE TRUE

\* list.remove(name): the first occurrence goes
remove(l, n) ==
    LET at == CHOOSE i \in DOMAIN l : l[i] = n /\ \A j \in DOMAIN l : l[j] = n => i <= j
    IN [k \in 1..(Len(l) - 1) |-> IF k < at THEN l[k] ELSE l[k + 1]]

\* SkillManager.enable and SkillManager.disable: the list they leave
enable(n) == IF n \in Range(disabled_skills) THEN remove(disabled_skills, n)
             ELSE disabled_skills
disable(n) == IF n \notin Range(disabled_skills) THEN Append(disabled_skills, n)
              ELSE disabled_skills

\* SkillManager.get_missing_tools
first_missing_tool(n, available_tools) ==
    LET missing(tool) == tool \notin available_tools
        all == SelectSeq(get(n).tools_required, missing)
    IN IF all = <<>> THEN <<>> ELSE <<Head(all)>>
get_missing_tools(n, available_tools) ==
    IF get(n) = NoSkill THEN <<>>
    ELSE LET missing(tool) == tool \notin available_tools
         IN SelectSeq(get(n).tools_required, missing)

\* Python values of the JSON scalars
Str(s) == [type |-> "str", v |-> s]
Int1 == [type |-> "int", v |-> "1"]
Int2 == [type |-> "int", v |-> "2"]
PyTrue == [type |-> "bool", v |-> "true"]
PyNone == [type |-> "NoneType", v |-> "null"]

\* isinstance(value, str), isinstance(value, int) (bool is a subclass of
\* int), isinstance(value, bool)
IsStr(value) == value.type = "str"
IsInt(value) == value.type \in {"int", "bool"}
IsBool(value) == value.type = "bool"

\* the truth value of a Python value
Truthy(value) == CASE value.type = "str" -> value.v # ""
                   [] value.type = "int" -> value.v # "0"
                   [] value.type = "bool" -> value.v = "true"
                   [] OTHER -> FALSE

\* what json.loads can return: an object (a dict, as the sequence of its
\* items) or a value that is no object: [1, 2], "abc", 5, true, null
Obj(items) == [json |-> "object", items |-> items]
NonObj(k) == [json |-> k, items |-> <<>>]
NonObjects == {NonObj(k) : k \in {"array", "string", "number", "bool", "null"}}

\* the keys of a dict, and dict.get
Keys(args) == {args.items[i][1] : i \in DOMAIN args.items}
Get(args, k) ==
    IF k \in Keys(args)
    THEN (args.items[CHOOSE i \in DOMAIN args.items : args.items[i][1] = k])[2]
    ELSE PyNone

\* ToolResult and what came with it: raised is TRUE when the call ended
\* with an exception and no result; executed lists the execute bodies entered
NoError == [msg |-> None, arg |-> <<>>]
Body(what, skill_name, skill_input) ==
    [body |-> what, skill_name |-> skill_name, skill_input |-> skill_input]
Succeeded(executed) ==
    [raised |-> FALSE, success |-> TRUE, error |-> NoError, executed |-> executed]
Failed(msg, arg, executed) ==
    [raised |-> FALSE, success |-> FALSE, error |-> [msg |-> msg, arg |-> arg],
     executed |-> executed]
Raised(executed) ==
    [raised |-> TRUE, success |-> FALSE, error |-> NoError, executed |-> executed]

\* what the body of a tool or of a skill written in code can do: return a
\* success, return a failure, raise
BodyOutcomes(executed) ==
    {Succeeded(executed), Failed("failed", <<>>, executed), Raised(executed)}

\* SkillManager.execute, with ctx.tools.list_tools() = available_tools
SkillManager_execute(n, available_tools, executed) ==
    IF get(n) = NoSkill THEN {Failed("Skill not found", <<n>>, executed)}
    ELSE IF ~is_skill_available(n) THEN {Failed("Skill is disabled", <<n>>, executed)}
    ELSE IF get_missing_tools(n, available_tools) # <<>>
    THEN {Failed("requires unavailable tools", get_missing_tools(n, available_tools),
                 executed)}
    ELSE BodyOutcomes(Append(executed, Body("skill", n, Str(""))))

\* ToolRegistry: the tools the bot registers, with the required and the
\* typed parameters each declares
Registered == {"bash"}
ToolNames == {"bash", "use_skill"}
Required(name) == IF name = "use_skill" THEN {"skill_name"} ELSE {"x"}
Properties(name) ==
    IF name = "use_skill"
    THEN [k \in {"skill_name", "skill_input"} |-> "string"]
    ELSE [k \in {"x", "s", "b"} |-> CASE k = "x" -> "integer"
                                      [] k = "s" -> "string"
                                      [] k = "b" -> "boolean"]

\* Tool.validate_args: the three isinstance checks
TypeError(expected_type, value) ==
    \/ expected_type = "string" /\ ~IsStr(value)
    \/ expected_type = "integer" /\ ~IsInt(value)
    \/ expected_type = "boolean" /\ ~IsBool(value)

\* Tool.validate_args: (valid, error), or raised when an operation on args
\* raises
Valid == [raised |-> FALSE, valid |-> TRUE, error |-> NoError]
Invalid(msg, arg) == [raised |-> FALSE, valid |-> FALSE, error |-> [msg |-> msg, arg |-> <<arg>>]]
validate_args(name, args) ==
    IF args.json \in {"number", "bool", "null"} /\ Required(name) # {}
    THEN [raised |-> TRUE, valid |-> FALSE, error |-> NoError]
    ELSE IF args.json # "object" /\ Required(name) # {}
    THEN Invalid("Missing required argument", CHOOSE f \in Required(name) : TRUE)
    ELSE IF args.json # "object"
    THEN [raised |-> TRUE, valid |-> FALSE, error |-> NoError]
    ELSE IF Required(name) \ Keys(args) # {}
    THEN Invalid("Missing required argument",
                 CHOOSE f \in Required(name) \ Keys(args) : TRUE)
    ELSE LET bad == {i \in DOMAIN args.items :
                        /\ args.items[i][1] \in DOMAIN Properties(name)
                        /\ TypeError(Properties(name)[args.items[i][1]], args.items[i][2])}
         IN IF bad = {} THEN Valid
            ELSE LET i == CHOOSE i \in bad : \A j \in bad : i <= j
                 IN Invalid("must be of its declared type", args.items[i][1])

\* SkillExecutorTool.execute
use_skill_execute(skill_name, skill_input) ==
    LET executed == <<Body("use_skill", skill_name, skill_input)>>
    IN IF skill_name = ""
       THEN {Failed("Missing required argument", <<"skill_name">>, executed)}
       ELSE SkillManager_execute(skill_name, _tools, executed)

\* tool.execute(**args) of a registered tool
execute(name, args) ==
    IF name = "use_skill"
    THEN use_skill_execute(Get(args, "skill_name").v,
                           IF "skill_input" \in Keys(args) THEN Get(args, "skill_input")
                           ELSE Str(""))
    ELSE BodyOutcomes(<<Body(name, "", Str(""))>>)

\* ToolRegistry.dispatch, the skill fallback: a or b or c or ""
Or(a, b) == IF Truthy(a) THEN a ELSE b
skill_input_of(args) ==
    Or(Get(args, "skill_input"), Or(Get(args, "message"), Or(Get(args, "input"), Str(""))))

\* ToolRegistry.dispatch: is the unknown name redirected to use_skill
redirects_any_skill(tool_name) == "use_skill" \in _tools /\ get(tool_name) # NoSkill
redirects(tool_name) == "use_skill" \in _tools /\ is_skill_available(tool_name)

\* ToolRegistry.dispatch: try: return await tool.execute(**args) except Exception
Guarded(o) == IF o.raised THEN Failed("Tool execution failed", <<>>, o.executed) ELSE o

\* ToolRegistry.dispatch: everything the call can end with
ToolRegistry_dispatch(tool_name, args) ==
    IF tool_name \notin _tools
    THEN IF redirects(tool_name)
         THEN IF args.json # "object" THEN {Raised(<<>>)}
              ELSE use_skill_execute(tool_name, skill_input_of(args))
         ELSE {Failed("Unknown tool", <<tool_name>>, <<>>)}
    ELSE IF validate_args(tool_name, args).raised THEN {Raised(<<>>)}
    ELSE IF ~validate_args(tool_name, args).valid
    THEN {[raised |-> FALSE, success |-> FALSE,
           error |-> validate_args(tool_name, args).error, executed |-> <<>>]}
    ELSE IF args.json # "object" THEN {Failed("Tool execution failed", <<>>, <<>>)}
    ELSE {Guarded(o) : o \in execute(tool_name, args)}

\* registry.dispatch as run calls it, with the dict json.loads gave: the
\* values of result.success it can return
dispatch(name, args) == {o.success : o \in ToolRegistry_dispatch(name, Obj(args))}

-----------------------------------------------------------------------------
(***************************************************************************)
(* The agent loop (AgentLoop.run) and what it calls.                       *)
(***************************************************************************)

NoResult == [response |-> None, stop_reason |-> None, turns |-> 0]
NoCall == [name |-> None, args |-> <<>>]
NoResponse == [content |-> None, tool_calls |-> <<>>]

\* what the language model can answer
ArgXY == <<<<"x", Int1>>, <<"y", Int2>>>>
ArgYX == <<<<"y", Int2>>, <<"x", Int1>>>>
NotJson == [valid |-> FALSE, pairs |-> <<>>]
ToolCalls == {[name |-> "bash", arguments |-> [valid |-> TRUE, pairs |-> ArgXY]],
              [name |-> "bash", arguments |-> [valid |-> TRUE, pairs |-> ArgYX]],
              [name |-> "bash", arguments |-> NotJson],
              [name |-> "nope", arguments |-> NotJson]}
Contents == {None, "t1"}
SeqsUpTo(S, n) == UNION {[1..k -> S] : k \in 0..n}
Responses == [content : Contents, tool_calls : SeqsUpTo(ToolCalls, MaxBatch)]

\* json.loads(tool_call.function.arguments), {} on JSONDecodeError; a dict is
\* the sequence of its items in insertion order
keeps_the_text(raw) == IF raw.valid THEN raw.pairs ELSE <<<<"x", Str("")>>>>
ParseArgs(raw) == IF raw.valid THEN raw.pairs ELSE <<>>

\* dict equality: same items, whatever the insertion order
DictEq(a, b) == Range(a) = Range(b)

KeyRank(k) == IF k = "x" THEN 1 ELSE 2

RECURSIVE SortItems(_)
SortItems(items) ==
    IF items = <<>> THEN <<>>
    ELSE LET m == CHOOSE i \in DOMAIN items :
                    \A j \in DOMAIN items : KeyRank(items[i][1]) <= KeyRank(items[j][1])
             rest == [k \in 1..(Len(items) - 1) |-> IF k < m THEN items[k] ELSE items[k + 1]]
         IN <<items[m]>> \o SortItems(rest)

\* json.dumps(tool_call, sort_keys=True): the text with the items in key order
json_dumps_unsorted(call) == [name |-> call.name, args |-> call.args]
json_dumps(call) == [name |-> call.name, args |-> SortItems(call.args)]

\* AgentLoop._reset_state
reset_keeps_errors == [last_tool_call |-> NoCall, repeated_count |-> 0,
                       consecutive_errors |-> consecutive_errors]
_reset_state == [last_tool_call |-> NoCall, repeated_count |-> 0, consecutive_errors |-> 0]

\* AgentLoop._check_repeated_call: the value returned and the fields it leaves
counts_every_call(call) ==
    [tripped |-> repeated_count + 1 >= max_repeated_calls,
     last_tool_call |-> json_dumps(call),
     repeated_count |-> repeated_count + 1]
_check_repeated_call(call) ==
    LET call_sig == json_dumps(call)
    IN IF call_sig = last_tool_call
       THEN [tripped |-> repeated_count + 1 >= max_repeated_calls,
             last_tool_call |-> last_tool_call,
             repeated_count |-> repeated_count + 1]
       ELSE [tripped |-> FALSE, last_tool_call |-> call_sig, repeated_count |-> 1]

\* run, "Track errors": the counter after a result
errors_never_reset(n, success) == IF ~success THEN n + 1 ELSE n
TrackErrors(n, success) == IF ~success THEN n + 1 ELSE 0

\* range(self.config.max_turns): is there another turn after `done` turns
loop_runs_once_more(done) == done < max_turns + 1
HasNextTurn(done) == done < max_turns

\* turns=turn + 1 of the three early returns
turns_off_by_one(t) == t
TurnsTaken(t) == t + 1

\* the for loop over assistant_message.tool_calls moves to the next call
skips_a_call(i) == i + 2
NextCall(i) == i + 1

\* assistant_message.content or ""
OrEmpty(content) == IF content = None THEN "" ELSE content

\* final_response or "Max turns reached"
OrFallback(text) == IF text = "" THEN "Max turns reached" ELSE text

\* if assistant_message.tool_calls:
any_content_is_final(resp) == resp.tool_calls # <<>> /\ resp.content = None
WantsTools(resp) == resp.tool_calls # <<>>

InitLoop ==
    /\ max_turns \in 1..MaxTurns
    /\ max_consecutive_errors \in 1..MaxErrors
    /\ max_repeated_calls \in 1..MaxRepeat
    /\ last_tool_call = NoCall
    /\ repeated_count = 0
    /\ consecutive_errors = 0
    /\ pc = "idle"
    /\ turn = 0
    /\ batch = <<>>
    /\ idx = 0
    /\ final_response = ""
    /\ tool_calls_log = 0
    /\ messages = <<>>
    /\ result = NoResult
    /\ chat_id = None
    /\ conv_log = <<>>
    /\ stale = FALSE
    /\ last_response = NoResponse
    /\ llm_calls = 0
    /\ last_text = ""
    /\ seen_prev = NoCall
    /\ same_streak = 0
    /\ fail_streak = 0
    /\ n_dispatched = 0
    /\ n_counted = 0
    /\ turn_dispatched = <<>>
    /\ all_prev_dispatched = TRUE

\* run up to the first model call: _reset_state and the outbound message list
StartRun(cid) ==
    /\ pc \in {"idle", "done", "raised"}
    /\ stale' = (consecutive_errors > 0 /\ last_tool_call # NoCall)
    /\ last_response' = NoResponse
    /\ last_tool_call' = _reset_state.last_tool_call
    /\ repeated_count' = _reset_state.repeated_count
    /\ consecutive_errors' = _reset_state.consecutive_errors
    /\ messages' = <<"system", "user">>
    /\ pc' = "think"
    /\ turn' = 0
    /\ batch' = <<>>
    /\ idx' = 0
    /\ final_response' = ""
    /\ tool_calls_log' = 0
    /\ result' = NoResult
    /\ chat_id' = cid
    /\ conv_log' = <<>>
    /\ llm_calls' = 0
    /\ last_text' = ""
    /\ seen_prev' = NoCall
    /\ same_streak' = 0
    /\ fail_streak' = 0
    /\ n_dispatched' = 0
    /\ n_counted' = 0
    /\ turn_dispatched' = <<>>
    /\ all_prev_dispatched' = TRUE
    /\ UNCHANGED <<max_turns, max_consecutive_errors, max_repeated_calls>>
    /\ UNCHANGED <<sessVars, skillVars>>

\* ConversationLogger.log_agent_stop under `if chat_id:`
log_agent_stop(stop_reason, turns) ==
    IF chat_id # None
    THEN Append(conv_log, [event |-> "agent_stop", stop_reason |-> stop_reason,
                           turns |-> turns])
    ELSE conv_log

\* the three returns of run
Return(response, stop_reason, turns) ==
    /\ result' = [response |-> response, stop_reason |-> stop_reason, turns |-> turns]
    /\ pc' = "done"

\* THINK: the model call returns resp
Think(resp) ==
    /\ pc = "think"
    /\ llm_calls' = llm_calls + 1
    /\ last_response' = resp
    /\ IF WantsTools(resp)
       THEN /\ messages' = Append(messages, "assistant")
            /\ batch' = resp.tool_calls
            /\ idx' = 1
            /\ pc' = "act"
            /\ last_text' = IF OrEmpty(resp.content) # "" THEN resp.content ELSE last_text
            /\ UNCHANGED <<final_response, result, conv_log>>
       ELSE /\ final_response' = OrEmpty(resp.content)
            /\ conv_log' = log_agent_stop("COMPLETE", TurnsTaken(turn))
            /\ Return(OrEmpty(resp.content), "COMPLETE", TurnsTaken(turn))
            /\ last_text' = IF OrEmpty(resp.content) # "" THEN resp.content ELSE last_text
            /\ UNCHANGED <<messages, batch, idx>>
    /\ UNCHANGED <<max_turns, max_consecutive_errors, max_repeated_calls,
                   last_tool_call, repeated_count, consecutive_errors, turn,
                   tool_calls_log, chat_id, stale, seen_prev, same_streak, fail_streak,
                   n_dispatched, n_counted, turn_dispatched, all_prev_dispatched>>
    /\ UNCHANGED <<sessVars, skillVars>>

\* THINK: the model call raises, and the error leaves run
LLMRaise ==
    /\ pc = "think"
    /\ llm_calls' = llm_calls + 1
    /\ pc' = "raised"
    /\ UNCHANGED <<max_turns, max_consecutive_errors, max_repeated_calls,
                   last_tool_call, repeated_count, consecutive_errors, turn, batch,
                   idx, final_response, tool_calls_log, messages, result, chat_id,
                   conv_log, stale, last_response, last_text, seen_prev, same_streak, fail_streak, n_dispatched,
                   n_counted, turn_dispatched, all_prev_dispatched>>
    /\ UNCHANGED <<sessVars, skillVars>>

\* ACT: parse the arguments of the next call, record it, check the
\* repeated-call breaker and start its dispatch
Act ==
    /\ pc = "act"
    /\ LET call_record == [name |-> batch[idx].name, args |-> ParseArgs(batch[idx].arguments)]
           chk == _check_repeated_call(call_record)
       IN /\ tool_calls_log' = tool_calls_log + 1
          /\ last_tool_call' = chk.last_tool_call
          /\ repeated_count' = chk.repeated_count
          /\ same_streak' = IF /\ seen_prev # NoCall
                               /\ seen_prev.name = call_record.name
                               /\ DictEq(seen_prev.args, call_record.args)
                            THEN same_streak + 1 ELSE 1
          /\ seen_prev' = call_record
          /\ IF chk.tripped
             THEN /\ Return("Stopped: repeated tool call detected", "REPEATED_CALL",
                            TurnsTaken(turn))
                  /\ UNCHANGED <<n_dispatched, turn_dispatched>>
             ELSE /\ pc' = "dispatching"
                  /\ n_dispatched' = n_dispatched + 1
                  /\ turn_dispatched' = Append(turn_dispatched, call_record)
                  /\ UNCHANGED result
    /\ UNCHANGED <<max_turns, max_consecutive_errors, max_repeated_calls,
                   consecutive_errors, turn, batch, idx, final_response, messages,
                   chat_id, conv_log, stale, last_response, llm_calls, last_text, fail_streak,
                   n_counted, all_prev_dispatched>>
    /\ UNCHANGED <<sessVars, skillVars>>

\* OBSERVE: registry.dispatch returns; count the result, append the tool
\* message, and go to the next call, the next turn or the end of the loop
DispatchReturn(success) ==
    /\ pc = "dispatching"
    /\ success \in dispatch(batch[idx].name, ParseArgs(batch[idx].arguments))
    /\ consecutive_errors' = TrackErrors(consecutive_errors, success)
    /\ fail_streak' = IF success THEN 0 ELSE fail_streak + 1
    /\ n_counted' = n_counted + 1
    /\ IF ~success /\ consecutive_errors' >= max_consecutive_errors
       THEN /\ Return("Stopped: consecutive errors", "CONSECUTIVE_ERRORS", TurnsTaken(turn))
            /\ UNCHANGED <<messages, idx, turn, turn_dispatched, all_prev_dispatched,
                           conv_log>>
       ELSE /\ messages' = Append(messages, "tool")
            /\ IF NextCall(idx) <= Len(batch)
               THEN /\ idx' = NextCall(idx)
                    /\ pc' = "act"
                    /\ UNCHANGED <<turn, result, turn_dispatched, all_prev_dispatched,
                                   conv_log>>
               ELSE /\ idx' = NextCall(idx)
                    /\ turn' = turn + 1
                    /\ all_prev_dispatched' =
                           (/\ all_prev_dispatched
                            /\ turn_dispatched =
                                 [i \in DOMAIN batch |->
                                    [name |-> batch[i].name,
                                     args |-> ParseArgs(batch[i].arguments)]])
                    /\ turn_dispatched' = <<>>
                    /\ IF HasNextTurn(turn + 1)
                       THEN pc' = "think" /\ UNCHANGED <<result, conv_log>>
                       ELSE /\ conv_log' = log_agent_stop("MAX_TURNS", max_turns)
                            /\ Return(OrFallback(final_response), "MAX_TURNS", max_turns)
    /\ UNCHANGED <<max_turns, max_consecutive_errors, max_repeated_calls,
                   last_tool_call, repeated_count, batch, final_response,
                   tool_calls_log, chat_id, stale, last_response, llm_calls, last_text,
                   seen_prev, same_streak, n_dispatched>>
    /\ UNCHANGED <<sessVars, skillVars>>

\* the places of run where a write to the conversation log is made, and the
\* position of the loop at each
LogPoints == {"request", "response", "tool_call", "tool_result"}
PcOf(point) ==
    CASE point \in {"request", "response"} -> "think"
      [] point = "tool_call" -> "act"
      [] point = "tool_result" -> "dispatching"

\* ConversationLogger._write raises (open or write fails) in a log call of
\* run: no log call is inside a try, so the exception leaves run
LogRaise(point) ==
    /\ chat_id # None
    /\ pc = PcOf(point)
    /\ llm_calls' = IF point = "response" THEN llm_calls + 1 ELSE llm_calls
    /\ tool_calls_log' = IF point = "tool_call" THEN tool_calls_log + 1 ELSE tool_calls_log
    /\ pc' = "raised"
    /\ UNCHANGED <<max_turns, max_consecutive_errors, max_repeated_calls,
                   last_tool_call, repeated_count, consecutive_errors, turn, batch,
                   idx, final_response, messages, result, chat_id, conv_log, stale,
                   last_response, last_text, seen_prev, same_streak, fail_streak,
                   n_dispatched, n_counted, turn_dispatched, all_prev_dispatched>>
    /\ UNCHANGED <<sessVars, skillVars>>

NextLoop ==
    \/ StartRun(None)
    \/ \E resp \in Responses : Think(resp)
    \/ LLMRaise
    \/ Act
    \/ \E success \in BOOLEAN : DispatchReturn(success)

-----------------------------------------------------------------------------
(***************************************************************************)
(* The calls made on the SkillManager and on the ToolRegistry, and the     *)
(* edits of the skill directories.                                         *)
(***************************************************************************)

\* the three maps after a call, with what the call returned
Leaves(M, op, ret, raised) ==
    /\ _registry' = M.reg
    /\ _mtimes' = M.mt
    /\ _skill_paths' = M.paths
    /\ last' = [op |-> op, ret |-> ret, raised |-> raised]

NoCallYet == [op |-> "other", ret |-> <<>>, raised |-> FALSE]

\* the skill directories as installed: the user's s1 shadows the bundled
\* one, and the bundled s2 has enabled: false
InitFiles == [d \in Dirs |-> IF d = "b2" THEN OkFile("s2", FALSE, <<>>, 1)
                             ELSE OkFile("s1", TRUE, <<>>, 1)]

InitManager ==
    /\ edits = 0
    /\ _registry = EmptyManager.reg
    /\ _mtimes = EmptyManager.mt
    /\ _skill_paths = EmptyManager.paths
    /\ disabled_skills = <<>>
    /\ last = NoCallYet
    /\ offered = <<>>
    /\ _tools = Registered

InitSkills == InitManager /\ fs = InitFiles /\ pending = <<>>

\* what an editor can leave in a definition file at time t
EditFiles(t) == {OkFile("s1", TRUE, <<>>, t), OkFile("s2", TRUE, <<>>, t),
                 BadFile("noname", t), BadFile("baddecode", t)}

\* a definition file is written (created or rewritten) outside the manager
WriteFile(d) ==
    /\ edits < MaxEdits
    /\ \E f \in EditFiles(edits + 2) : fs' = [fs EXCEPT ![d] = f]
    /\ edits' = edits + 1
    /\ last' = NoCallYet
    /\ UNCHANGED <<_registry, _mtimes, _skill_paths, disabled_skills, pending,
                   offered, _tools>>
    /\ UNCHANGED <<sessVars, loopVars>>

\* a skill directory is removed outside the manager
DeleteFile(d) ==
    /\ edits < MaxEdits
    /\ exists(d)
    /\ fs' = [fs EXCEPT ![d] = NoFile]
    /\ edits' = edits + 1
    /\ last' = NoCallYet
    /\ UNCHANGED <<_registry, _mtimes, _skill_paths, disabled_skills, pending,
                   offered, _tools>>
    /\ UNCHANGED <<sessVars, loopVars>>

\* the definition file of a registered skill gets new contents outside the
\* manager: it still parses, keeps its name, and its mtime increases
TouchFile(d) ==
    /\ edits < MaxEdits
    /\ fs[d].kind = "ok"
    /\ \E n \in SkillNames : _registry[n] # NoSkill /\ PathOf(_skill_paths, n) = d
    /\ \E en \in BOOLEAN :
          fs' = [fs EXCEPT ![d] = OkFile(fs[d].name, en, <<>>, edits + 2)]
    /\ edits' = edits + 1
    /\ last' = [op |-> IF last.op \in {"discover", "refresh", "touch"}
                       THEN "touch" ELSE "other",
                ret |-> <<>>, raised |-> last.raised]
    /\ UNCHANGED <<_registry, _mtimes, _skill_paths, disabled_skills, pending,
                   offered, _tools>>
    /\ UNCHANGED <<sessVars, loopVars>>

\* SkillManager.discover
Discover ==
    /\ \E scan \in ScanOrders :
          LET r == discover(Manager, scan, <<>>)
          IN Leaves(r.M, "discover", <<>>, r.raised)
    /\ UNCHANGED <<fs, edits, disabled_skills, pending, offered, _tools>>
    /\ UNCHANGED <<sessVars, loopVars>>

\* SkillManager.refresh: clear_cache, then discover
Refresh ==
    /\ \E scan \in ScanOrders :
          LET r == discover(clear_cache, scan, <<>>)
          IN Leaves(r.M, "refresh", <<>>, r.raised)
    /\ UNCHANGED <<fs, edits, disabled_skills, pending, offered, _tools>>
    /\ UNCHANGED <<sessVars, loopVars>>

\* SkillManager.register called by a client with a skill built in code, with
\* or without a directory to track
Register(skill, skill_dir) ==
    /\ Leaves(register(Manager, skill, skill_dir),
              IF skill_dir # NoPath /\ exists(skill_dir)
              THEN "other" ELSE "register_untracked",
              <<>>, FALSE)
    /\ UNCHANGED <<fs, edits, disabled_skills, pending, offered, _tools>>
    /\ UNCHANGED <<sessVars, loopVars>>

\* SkillManager.unregister
Unregister(n) ==
    /\ Leaves(unregister(Manager, n), "other", <<>>, FALSE)
    /\ UNCHANGED <<fs, edits, disabled_skills, pending, offered, _tools>>
    /\ UNCHANGED <<sessVars, loopVars>>

\* SkillManager.refresh_changed
RefreshChanged ==
    /\ LET r == refresh_changed(Manager, _skill_paths, <<>>)
       IN Leaves(r.M, "refresh_changed", r.ret, r.raised)
    /\ UNCHANGED <<fs, edits, disabled_skills, pending, offered, _tools>>
    /\ UNCHANGED <<sessVars, loopVars>>

\* SkillManager.clear_cache
ClearCache ==
    /\ Leaves(clear_cache, "other", <<>>, FALSE)
    /\ UNCHANGED <<fs, edits, disabled_skills, pending, offered, _tools>>
    /\ UNCHANGED <<sessVars, loopVars>>

NextSkills ==
    \/ \E d \in Dirs : WriteFile(d)
    \/ \E d \in Dirs : DeleteFile(d)
    \/ Discover
    \/ Refresh
    \/ \E n \in SkillNames, skill_dir \in {"b1", NoPath} :
          Register(CodeSkill(n, "USER", TRUE, <<>>), skill_dir)
    \/ \E n \in SkillNames : Unregister(n)
    \/ RefreshChanged
    \/ ClearCache

\* what a call on the registry or on the manager returned
Called(op, name, args, o) ==
    [op |-> op, name |-> name, args |-> args, raised |-> o.raised,
     success |-> o.success, error |-> o.error, executed |-> o.executed]

\* ToolRegistry.register of a tool not yet registered
RegisterTool(t) ==
    /\ t \notin _tools
    /\ _tools' = _tools \cup {t}
    /\ last' = NoCallYet
    /\ UNCHANGED <<fs, edits, _registry, _mtimes, _skill_paths, disabled_skills,
                   pending, offered>>
    /\ UNCHANGED <<sessVars, loopVars>>

\* ToolRegistry.unregister
UnregisterTool(t) ==
    /\ t \in _tools
    /\ _tools' = _tools \ {t}
    /\ last' = NoCallYet
    /\ UNCHANGED <<fs, edits, _registry, _mtimes, _skill_paths, disabled_skills,
                   pending, offered>>
    /\ UNCHANGED <<sessVars, loopVars>>

\* SkillManager.enable
Enable(n) ==
    /\ disabled_skills' = enable(n)
    /\ last' = [op |-> "enable", ret |-> <<n>>, raised |-> FALSE]
    /\ UNCHANGED <<fs, edits, _registry, _mtimes, _skill_paths, pending, offered, _tools>>
    /\ UNCHANGED <<sessVars, loopVars>>

\* SkillManager.disable
Disable(n) ==
    /\ disabled_skills' = disable(n)
    /\ last' = [op |-> "disable", ret |-> <<n>>, raised |-> FALSE]
    /\ UNCHANGED <<fs, edits, _registry, _mtimes, _skill_paths, pending, offered, _tools>>
    /\ UNCHANGED <<sessVars, loopVars>>

\* SkillManager.execute, the context holding the tool registry
Execute(n) ==
    /\ \E o \in SkillManager_execute(n, _tools, <<>>) :
          last' = Called("execute", n, Obj(<<>>), o)
    /\ UNCHANGED <<fs, edits, _registry, _mtimes, _skill_paths, disabled_skills,
                   pending, offered, _tools>>
    /\ UNCHANGED <<sessVars, loopVars>>

\* ToolRegistry.dispatch
Dispatch(tool_name, args) ==
    /\ \E o \in ToolRegistry_dispatch(tool_name, args) :
          last' = Called("dispatch", tool_name, args, o)
    /\ UNCHANGED <<fs, edits, _registry, _mtimes, _skill_paths, disabled_skills,
                   pending, offered, _tools>>
    /\ UNCHANGED <<sessVars, loopVars>>

\* the skills a client builds in code and registers
ClientSkills == {CodeSkill(n, "USER", en, req) :
                    n \in SkillNames, en \in BOOLEAN, req \in {<<"bash">>, <<"web", "bash">>}}
CalledSkills == {skill \in ClientSkills : skill.tools_required = <<"bash">>}

\* the names the model can call, and the arguments it can send
DispatchNames == ToolNames \cup SkillNames \cup {"nope"}
Field(k, values) == {<<>>} \cup {<<<<k, value>>>> : value \in values}
ToolItems == {x \o s : x \in Field("x", {Int1, PyTrue, Str("1")}),
                       s \in Field("s", {Str("a"), Int1})}
                 \cup {<<<<"x", Int1>>, <<"b", value>>>> : value \in {PyTrue, Int1}}
SkillItems == {i \o m \o k : i \in Field("input", {Str("i")}),
                             m \in Field("message", {Str("m")}),
                             k \in Field("skill_input", {Str(""), Str("k")})}
UseSkillItems == {n \o k : n \in Field("skill_name", {Str("s1"), Str(""), Int1}),
                          k \in Field("skill_input", {Str("k")})}
\* the calls the model can make: a tool with arguments for a tool, an
\* unregistered name with arguments for a skill, and any of them with
\* arguments that are no object
ArgsFor(tool_name) ==
    NonObjects \cup {Obj(items) : items \in
                        CASE tool_name = "bash" -> ToolItems \cup {ArgXY}
                          [] tool_name = "use_skill" -> UseSkillItems
                          [] OTHER -> SkillItems}

NextAvail ==
    \/ \E t \in ToolNames : RegisterTool(t)
    \/ \E t \in ToolNames : UnregisterTool(t)
    \/ \E skill \in ClientSkills : Register(skill, NoPath)
    \/ \E n \in SkillNames : Unregister(n)
    \/ Refresh
    \/ \E n \in SkillNames : Enable(n)
    \/ \E n \in SkillNames : Disable(n)
    \/ \E n \in SkillNames : Execute(n)

NextDispatch ==
    \/ \E t \in ToolNames : RegisterTool(t)
    \/ \E t \in ToolNames : UnregisterTool(t)
    \/ \E skill \in CalledSkills : Register(skill, NoPath)
    \/ \E n \in SkillNames : Unregister(n)
    \/ \E n \in SkillNames : Enable(n)
    \/ \E n \in SkillNames : Disable(n)
    \/ \E tool_name \in DispatchNames :
          \E args \in ArgsFor(tool_name) : Dispatch(tool_name, args)

\* a client registers the skills of pending one after the other
RegisterPending ==
    /\ pending # <<>>
    /\ Leaves(register(Manager, Head(pending), NoPath), "register_untracked", <<>>, FALSE)
    /\ pending' = Tail(pending)
    /\ offered' = Append(offered, Head(pending))
    /\ UNCHANGED <<fs, edits, disabled_skills, _tools>>
    /\ UNCHANGED <<sessVars, loopVars>>

\* the lists of skills a client can build: the i-th is a skill object of its
\* own (rev i), of any name and source tier
SkillLists ==
    UNION {[1..k -> SkillNames \X SkillSource] : k \in 0..MaxRegs}
BuildSkills(l) == [i \in DOMAIN l |-> [CodeSkill(l[i][1], l[i][2], TRUE, <<>>) EXCEPT !.rev = i]]

\* the directories a scan can meet: every file state in every directory
AnyFiles == {NoFile} \cup {OkFile(n, TRUE, <<>>, 1) : n \in SkillNames}
                     \cup {BadFile(k, 1) : k \in BadKinds}

-----------------------------------------------------------------------------
(***************************************************************************)
(* The specifications.                                                     *)
(***************************************************************************)

\* the agent loop, run called without a chat id; the session manager and
\* the skills stay as constructed
Init == InitLoop /\ InitSess /\ InitSkills
Next == NextLoop
Spec == Init /\ [][Next]_vars

\* the agent loop, every started step of a run being completed
FairSpec == Spec /\ WF_vars(Next)

\* the agent loop called with and without a chat id, a run with a chat id
\* writing to a conversation log whose writes can fail
LogNext ==
    \/ NextLoop
    \/ StartRun("c1")
    \/ \E point \in LogPoints : LogRaise(point)
LogSpec == Init /\ [][LogNext]_vars

\* the session manager under the bot's handlers; the loop stays idle
SessionInit == InitSess /\ InitLoop /\ max_turns = 1 /\ max_consecutive_errors = 1
               /\ max_repeated_calls = 1 /\ InitSkills
SessionNext == NextSess
SessionSpec == SessionInit /\ [][SessionNext]_vars

\* the message handlers and /stop, every awaited call of a handler returning
\* or raising in the end
NextHandlers ==
    \/ \E t \in Tasks, c \in Chats : HandleMessage(t, c)
    \/ \E t \in Tasks : BusyReplyDone(t)
    \/ \E t \in Tasks : TypingDone(t)
    \/ \E t \in Tasks : TypingRaise(t)
    \/ \E t \in Tasks : RunReturn(t)
    \/ \E t \in Tasks : RunRaise(t)
    \/ \E t \in Tasks : ReplyRaise(t)
    \/ \E t \in Tasks : HandlerFinally(t)
    \/ \E c \in Chats : HandleStop(c)
HandlerSpec ==
    /\ SessionInit
    /\ [][NextHandlers]_vars
    /\ \A t \in Tasks : /\ WF_vars(TypingDone(t) \/ TypingRaise(t))
                        /\ WF_vars(RunReturn(t) \/ RunRaise(t))
                        /\ WF_vars(HandlerFinally(t))

\* one chat's state and file under get_session, acquire, release and the
\* writes, whatever file an earlier process left
PersistInit ==
    /\ \E f \in InitRecords : InitSessOver([c \in Chats |-> IF c = "c1" THEN f ELSE NoSession])
    /\ InitLoop /\ max_turns = 1 /\ max_consecutive_errors = 1 /\ max_repeated_calls = 1
    /\ InitSkills
PersistNext == NextPersist
PersistSpec == PersistInit /\ [][PersistNext]_vars

\* the chats under the calls that take a chat id
FrameInit == SessionInit
FrameNext == NextFrame
FrameSpec == FrameInit /\ [][FrameNext]_vars

\* the chats under destroy_session and the expiry sweep
ExpiryInit == SessionInit
ExpiryNext == NextExpiry
ExpirySpec == ExpiryInit /\ [][ExpiryNext]_vars

\* the skill manager over skill directories that are edited while it runs
SkillInit == SessionInit
SkillNext == NextSkills
SkillSpec == SkillInit /\ [][SkillNext]_vars

\* the skill manager over skill directories whose files are edited, the
\* rewrites that only change the contents of a registered skill set apart
EquivInit == SessionInit
EquivNext == NextSkills \/ \E d \in Dirs : TouchFile(d)
EquivSpec == EquivInit /\ [][EquivNext]_vars

\* the tool registry, with the skills behind it, under the calls of the model
DispatchInit == SessionInit
DispatchNext == NextDispatch
DispatchSpec == DispatchInit /\ [][DispatchNext]_vars

\* the skill manager under registration, refresh, the runtime toggle and
\* execute
AvailInit == SessionInit
AvailNext == NextAvail
AvailSpec == AvailInit /\ [][AvailNext]_vars

\* a client registering a list of skills on a new manager
RegisterInit ==
    /\ InitSess /\ InitLoop /\ max_turns = 1 /\ max_consecutive_errors = 1
    /\ max_repeated_calls = 1
    /\ InitManager /\ fs = InitFiles
    /\ pending \in {BuildSkills(l) : l \in SkillLists}
RegisterNext == RegisterPending
RegisterSpec == RegisterInit /\ [][RegisterNext]_vars

\* discovery on a new manager, over every content of the skill directories
DiscoverInit ==
    /\ InitSess /\ InitLoop /\ max_turns = 1 /\ max_consecutive_errors = 1
    /\ max_repeated_calls = 1
    /\ InitManager /\ pending = <<>>
    /\ fs \in [Dirs -> AnyFiles]
DiscoverNext == Discover
DiscoverSpec == DiscoverInit /\ [][DiscoverNext]_vars

-----------------------------------------------------------------------------
(***************************************************************************)
(* Session concurrency: C1, C2.                                            *)
(***************************************************************************)

\* the agent runs of chat c that are in flight
RunsInFlight(c) == {t \in Tasks : hchat[t] = c /\ hpc[t] = "run"}

\* C1: under every interleaving of message handling, /stop, /reset and the
\* expiry sweep, at most one agent run per chat id is in flight.
C1_OneRunInFlight == \A c \in Chats : Cardinality(RunsInFlight(c)) <= 1

\* handler t makes its acquire call, for chat c, in this step
AcquireCall(t, c) == hpc[t] = "new" /\ hpc'[t] # "new" /\ hchat'[t] = c
AcquireTrue(t) == hpc'[t] = "typing"
AcquireBusy(t) == hpc'[t] = "busyreply"

\* C2 as stated: after acquire(X) returned (true, null), every acquire(X)
\* before a release(X) returns (false, busy-message); after release(X) the
\* next acquire(X) returns (true, null).
C2_AcquireUntilRelease ==
    [][\A t \in Tasks, c \in Chats :
          AcquireCall(t, c) =>
              /\ phase[c] \in {"acquired", "destroyed"} => AcquireBusy(t)
              /\ phase[c] = "released" => AcquireTrue(t)]_vars

\* C2 as amended: after acquire(X) returned (true, null), every acquire(X)
\* before a release(X) or a destroy_session(X) returns (false, busy-message)
\* in the same step; after release(X) the next acquire(X) returns (true, null).
C2_AcquireUntilReleaseOrDestroy ==
    [][\A t \in Tasks, c \in Chats :
          AcquireCall(t, c) =>
              /\ phase[c] = "acquired" => AcquireBusy(t)
              /\ phase[c] = "released" => AcquireTrue(t)]_vars

\* an acquire has just been refused on a chat acquired and not yet released
C2_Witness == \E t \in Tasks : hpc[t] = "busyreply" /\ phase[hchat[t]] = "acquired"

-----------------------------------------------------------------------------
(***************************************************************************)
(* The circuit breakers and the results of run: C3 to C10.                 *)
(***************************************************************************)

Stopped(reason) == pc = "done" /\ result.stop_reason = reason

\* the last call seen ended the run before its dispatch
LastCallNotDispatched == n_dispatched = tool_calls_log - 1 /\ n_counted = n_dispatched

\* C3 as stated: once the same call has been seen max_repeated_calls times
\* in a row, run has stopped with REPEATED_CALL at that turn and the last of
\* them was not dispatched.
C3_StopsAtKthRepeat ==
    same_streak >= max_repeated_calls =>
        /\ Stopped("REPEATED_CALL")
        /\ result.turns = llm_calls
        /\ LastCallNotDispatched

\* the number of identical calls in a row at which the breaker trips
TripsAt == IF max_repeated_calls < 2 THEN 2 ELSE max_repeated_calls

\* C3 as amended: run stops with REPEATED_CALL exactly when the same call
\* (same name, same parsed arguments, any key order) has been seen
\* max(max_repeated_calls, 2) times in a row, at the turn of the last of them,
\* which is not dispatched.
C3_StopsAtRepeat ==
    /\ same_streak >= TripsAt =>
          /\ Stopped("REPEATED_CALL")
          /\ result.turns = llm_calls
          /\ LastCallNotDispatched
    /\ result.stop_reason = "REPEATED_CALL" => same_streak = TripsAt

\* the breaker tripped in a later turn on a call whose keys came reordered
C3_Witness ==
    /\ Stopped("REPEATED_CALL")
    /\ max_repeated_calls = 3
    /\ turn >= 1
    /\ seen_prev.args = ArgYX

\* C4: run stops with CONSECUTIVE_ERRORS exactly when max_consecutive_errors
\* dispatches in a row have failed, whatever their tools and turns; a success
\* puts the count back to zero.
C4_ConsecutiveErrors ==
    /\ fail_streak <= max_consecutive_errors
    /\ fail_streak = max_consecutive_errors <=> Stopped("CONSECUTIVE_ERRORS")
    /\ result.stop_reason = "CONSECUTIVE_ERRORS" => result.turns = llm_calls

\* the breaker tripped in a later turn on a call to an unknown tool
C4_Witness ==
    /\ Stopped("CONSECUTIVE_ERRORS")
    /\ max_consecutive_errors = 2
    /\ turn >= 1
    /\ batch[idx].name = "nope"
    /\ n_counted > 2

\* C5: the model is called at most max_turns times, and a run that neither
\* completes nor trips a breaker calls it exactly max_turns times and returns
\* MAX_TURNS with turns = max_turns.
C5_MaxTurns ==
    /\ llm_calls <= max_turns
    /\ pc = "think" => llm_calls < max_turns
    /\ pc = "done" /\ result.stop_reason \notin {"COMPLETE", "REPEATED_CALL", "CONSECUTIVE_ERRORS"}
          => /\ result.stop_reason = "MAX_TURNS"
             /\ llm_calls = max_turns
             /\ result.turns = max_turns
    /\ result.stop_reason = "MAX_TURNS" => llm_calls = max_turns /\ last_response.tool_calls # <<>>

\* a run of two turns ended with MAX_TURNS
C5_Witness == Stopped("MAX_TURNS") /\ max_turns = 2 /\ llm_calls = 2

StopReasons == {"COMPLETE", "MAX_TURNS", "REPEATED_CALL", "CONSECUTIVE_ERRORS"}

\* what a finished run reports
C6_OneStopReason ==
    /\ pc = "done" => /\ result.stop_reason \in StopReasons
                      /\ result.turns = llm_calls
                      /\ result.turns \in 1..max_turns
    /\ pc # "done" => result = NoResult

\* C6: every run whose model calls and dispatches return terminates, with
\* one of the four stop reasons and turns = the number of model calls made,
\* which lies in 1..max_turns.
C6_Terminates ==
    /\ []C6_OneStopReason
    /\ (pc \in {"think", "act", "dispatching"}) ~> (pc \in {"done", "raised"})

\* a run ended on a breaker in its second turn
C6_Witness == Stopped("CONSECUTIVE_ERRORS") /\ result.turns = 2

\* C7: the three fields of the loop instance depend on the calls and results
\* of the current run only: whatever an earlier run left in them is gone at
\* the entry of run.
C7_ResetAtEntry ==
    /\ consecutive_errors = fail_streak
    /\ repeated_count = same_streak
    /\ last_tool_call = json_dumps(seen_prev)

\* a run on an instance left with errors and a last call by an earlier run
\* has seen one failure, and goes on
C7_Witness ==
    /\ stale
    /\ pc = "think"
    /\ fail_streak = 1
    /\ max_consecutive_errors = 2

\* C8: run returns COMPLETE iff its last model response had no tool calls;
\* then the response is that response's text, turns is the index of that
\* model call, and every call requested before it was dispatched and counted.
C8_Complete ==
    /\ pc = "done" => (result.stop_reason = "COMPLETE" <=> last_response.tool_calls = <<>>)
    /\ result.stop_reason = "COMPLETE" =>
          /\ pc = "done"
          /\ result.response = OrEmpty(last_response.content)
          /\ result.turns = llm_calls
          /\ n_dispatched = tool_calls_log
          /\ n_counted = n_dispatched
          /\ all_prev_dispatched

\* a run completed in its second turn with the model's text
C8_Witness ==
    /\ Stopped("COMPLETE")
    /\ result.turns = 2
    /\ result.response = "t1"
    /\ n_dispatched > 0

\* C9: a run that stops with MAX_TURNS returns the last assistant text seen
\* during the run, and the fallback literal only if there was none.
C9_LastAssistantText ==
    result.stop_reason = "MAX_TURNS" =>
        result.response = (IF last_text = "" THEN "Max turns reached" ELSE last_text)

IsPrefix(p, q) == Len(p) <= Len(q) /\ \A i \in DOMAIN p : p[i] = q[i]

\* the call records of the current batch, as run builds them
Requested == [i \in DOMAIN batch |->
                [name |-> batch[i].name, args |-> ParseArgs(batch[i].arguments)]]

ToolMessages == Cardinality({i \in DOMAIN messages : messages[i] = "tool"})

\* C10: the calls of a turn are dispatched one at a time in the order
\* listed, each only after the result of the one before was counted and
\* appended as a tool message; the dispatched calls are a prefix of the
\* requested ones, and a call that trips a breaker is the last one dispatched.
C10_InOrder ==
    /\ all_prev_dispatched
    /\ IsPrefix(turn_dispatched, Requested)
    /\ pc = "act" => /\ Len(turn_dispatched) = idx - 1
                     /\ n_dispatched = n_counted
                     /\ ToolMessages = n_counted
    /\ pc = "dispatching" => /\ Len(turn_dispatched) = idx
                             /\ n_dispatched = n_counted + 1
                             /\ ToolMessages = n_counted
    /\ pc \in {"think", "done", "raised"} => n_dispatched = n_counted
    /\ Stopped("REPEATED_CALL") => Len(turn_dispatched) = idx - 1
    /\ Stopped("CONSECUTIVE_ERRORS") => Len(turn_dispatched) = idx
    /\ Stopped("MAX_TURNS") \/ Stopped("COMPLETE") => n_dispatched = tool_calls_log

\* the second call of a batch is being dispatched in a later turn
C10_Witness == pc = "dispatching" /\ idx = 2 /\ turn >= 1

-----------------------------------------------------------------------------
(***************************************************************************)
(* The skill registry and its cache: C15, C18, C19, C20.                   *)
(***************************************************************************)

\* the skills named n among those passed to register, in call order
OffersOf(n) == LET named(skill) == skill.name = n IN SelectSeq(offered, named)

\* the first skill of the highest source tier in a non-empty list of skills
FirstOfTop(skills) ==
    LET top == CHOOSE p \in {priority(skills[i].source) : i \in DOMAIN skills} :
                   \A j \in DOMAIN skills : priority(skills[j].source) <= p
        first == CHOOSE i \in DOMAIN skills :
                     /\ priority(skills[i].source) = top
                     /\ \A j \in DOMAIN skills : priority(skills[j].source) = top => i <= j
    IN skills[first]

\* C15: whatever skills of one name are registered and in whatever order, the
\* registry holds the one of the highest source tier, the first registered
\* among those of that tier; an entry is replaced only by a skill of a
\* strictly higher tier.
C15_HighestTierWins ==
    /\ [](\A n \in SkillNames :
             _registry[n] = IF OffersOf(n) = <<>> THEN NoSkill
                            ELSE FirstOfTop(OffersOf(n)))
    /\ [][\A n \in SkillNames :
             _registry[n] # NoSkill /\ _registry'[n] # _registry[n] =>
                 priority(_registry'[n].source) > priority(_registry[n].source)]_vars

\* three skills named s1 were registered, USER, WORKSPACE and WORKSPACE in
\* that order, and the second is the one held
C15_Witness ==
    /\ pending = <<>>
    /\ Len(offered) = 3
    /\ \A i \in 1..3 : offered[i].name = "s1"
    /\ offered[1].source = "USER"
    /\ offered[2].source = "WORKSPACE"
    /\ offered[3].source = "WORKSPACE"
    /\ _registry["s1"] = offered[2]

RegKeys == {n \in SkillNames : _registry[n] # NoSkill}
MtimeKeys == {n \in SkillNames : _mtimes[n] # 0}
SameKeys == RegKeys = PathKeys(_skill_paths) /\ MtimeKeys = PathKeys(_skill_paths)

Modified == {n \in PathKeys(_skill_paths) :
                /\ exists(PathOf(_skill_paths, n))
                /\ fs[PathOf(_skill_paths, n)].mtime > _mtimes[n]}

\* C19: refresh_changed unregisters every tracked skill whose file is gone,
\* reloads under the same key and with the same source tier every tracked
\* skill whose file has a larger mtime, leaves every other entry as it is,
\* and returns exactly the names of the modified skills.
C19_RefreshChanged ==
    [][last'.op = "refresh_changed" =>
          /\ ~last'.raised
          /\ \A n \in PathKeys(_skill_paths) :
                LET d == PathOf(_skill_paths, n)
                IN /\ ~exists(d) => _registry'[n] = NoSkill
                   /\ n \in Modified =>
                         /\ _registry'[n] # NoSkill
                         /\ _registry'[n].path = d
                         /\ _registry'[n].rev = fs[d].mtime
                         /\ _registry'[n].source = _registry[n].source
                   /\ exists(d) /\ n \notin Modified => _registry'[n] = _registry[n]
          /\ Range(last'.ret) = Modified]_vars

\* the valid skill directories of a source tier
ValidDirs == {d \in Dirs : fs[d].kind = "ok"}

\* C20: whatever failure loading one skill directory meets, discover returns,
\* registers nothing for that directory, and registers the valid directories:
\* every name with a valid directory is held, by a directory of the highest
\* tier that has it.
C20_DiscoverSkipsBad ==
    last.op = "discover" =>
        /\ ~last.raised
        /\ \A d \in ValidDirs :
              /\ _registry[fs[d].name] # NoSkill
              /\ priority(_registry[fs[d].name].source) >= priority(DirSource(d))
        /\ \A n \in RegKeys : /\ _registry[n].path \in ValidDirs
                              /\ fs[_registry[n].path].name = n

(***************************************************************************)
(* Dispatch and the availability of skills: C11, C12, C13, C14, C16, C17   *)
(***************************************************************************)

\* a skill name is available: registered, enabled by its own metadata, and
\* not in the runtime disabled list
Available(n) ==
    /\ n \in RegKeys
    /\ _registry[n].enabled
    /\ \A i \in DOMAIN disabled_skills : disabled_skills[i] # n

\* C11: dispatch never propagates an exception to its caller: whatever the
\* tool name and the argument value (parsed JSON that is no object
\* included), and whatever fails while validating, running a tool or running
\* a skill through the fallback, it returns a failed ToolResult.
C11_DispatchNeverRaises == last.op = "dispatch" => ~last.raised

\* C12: for a name that is neither a registered tool nor the name of an
\* available skill, dispatch returns success = false with the error
\* "Unknown tool", and no tool's or skill's execute is called.
C12_UnknownTool ==
    last.op = "dispatch" /\ last.name \notin _tools /\ ~Available(last.name) =>
        /\ ~last.raised
        /\ ~last.success
        /\ last.error = [msg |-> "Unknown tool", arg |-> <<last.name>>]
        /\ last.executed = <<>>

\* the name of a registered skill that is not available was dispatched with
\* a skill input while the skill executor was registered
C12_Witness ==
    /\ last.op = "dispatch"
    /\ last.name \in RegKeys
    /\ ~Available(last.name)
    /\ "use_skill" \in _tools
    /\ "skill_input" \in Keys(last.args)
    /\ last.error.msg = "Unknown tool"

\* the primitive type a JSON value has
JsonType(value) == CASE value.type = "str" -> "string"
                     [] value.type = "int" -> "integer"
                     [] value.type = "bool" -> "boolean"
                     [] OTHER -> "null"

\* the payload misses a required field of the tool, or gives a declared
\* parameter a value of another primitive type
Mismatch(name, args) ==
    \/ Required(name) \ Keys(args) # {}
    \/ \E k \in Keys(args) \cap DOMAIN Properties(name) :
          JsonType(Get(args, k)) # Properties(name)[k]

\* C13: for a registered tool and a payload that misses a required field or
\* gives a declared parameter a value of the wrong primitive type, dispatch
\* returns a failed ToolResult with an error and execute is not called.
C13_MismatchNotExecuted ==
    /\ last.op = "dispatch"
    /\ last.name \in _tools
    /\ last.args.json = "object"
    /\ Mismatch(last.name, last.args)
    => /\ ~last.raised
       /\ ~last.success
       /\ last.error.msg # None
       /\ last.executed = <<>>

\* the value of the first field of fields that args has, "" when it has none
FirstPresent(args, fields) ==
    LET present == SelectSeq(fields, LAMBDA k : k \in Keys(args))
    IN IF present = <<>> THEN Str("") ELSE Get(args, Head(present))

\* C14: a name that is no registered tool but the name of an available skill,
\* with the skill executor registered, is run by the skill executor, called
\* once with that name and with the first present of the fields "input",
\* "message", "skill_input" as the skill input.
C14_SkillFallback ==
    /\ last.op = "dispatch"
    /\ last.name \notin _tools
    /\ "use_skill" \in _tools
    /\ Available(last.name)
    => /\ ~last.raised
       /\ last.error.msg # "Unknown tool"
       /\ last.executed # <<>>
       /\ Head(last.executed) =
              Body("use_skill", last.name,
                   FirstPresent(last.args, <<"input", "message", "skill_input">>))
       /\ \A i \in DOMAIN last.executed : i > 1 => last.executed[i].body # "use_skill"

\* C16: a name is available exactly when it is registered, enabled by its
\* metadata and not in the runtime disabled list; after enable a name is
\* available exactly when it is registered and enabled by its metadata,
\* after disable it is not; execute of a name that is not available fails
\* and runs no skill body.
C16_Availability ==
    /\ \A n \in SkillNames \cup {"nope"} : is_skill_available(n) <=> Available(n)
    /\ last.op = "enable" =>
          (is_skill_available(last.ret[1]) <=>
              last.ret[1] \in RegKeys /\ _registry[last.ret[1]].enabled)
    /\ last.op = "disable" => ~is_skill_available(last.ret[1])
    /\ last.op = "execute" /\ ~Available(last.name) =>
          ~last.raised /\ ~last.success /\ last.executed = <<>>

\* enable was called on a registered skill that its metadata disables, and
\* the skill is not available
C16_Witness ==
    /\ last.op = "enable"
    /\ last.ret[1] \in RegKeys
    /\ ~_registry[last.ret[1]].enabled
    /\ ~is_skill_available(last.ret[1])

\* the required tools of a skill that are not registered
Missing(n) == {t \in Range(_registry[n].tools_required) : t \notin _tools}

\* C17: execute of an available skill with a required tool missing fails,
\* names exactly the missing tools and runs no skill body; with none
\* missing it runs the body.
C17_MissingTools ==
    last.op = "execute" /\ Available(last.name) =>
        IF Missing(last.name) # {}
        THEN /\ ~last.success
             /\ last.error.msg = "requires unavailable tools"
             /\ Range(last.error.arg) = Missing(last.name)
             /\ last.executed = <<>>
        ELSE last.executed = <<Body("skill", last.name, Str(""))>>

\* execute of an available skill failed with two required tools missing
C17_Witness ==
    /\ last.op = "execute"
    /\ Available(last.name)
    /\ Cardinality(Missing(last.name)) = 2
    /\ ~last.success

(***************************************************************************)
(* Sessions: /stop, the lock, persistence and expiry: C21 .. C27           *)
(***************************************************************************)

C22_MutationUnderLock ==
    [][last'.op \in {"message", "assistant", "reset"} =>
          \/ locks[last'.ret[1]] = "held"
          \/ last'.op = "message" /\ locks'[last'.ret[1]] = "held"]_vars

\* C23: right after release(X) of a chat that has a session, release has
\* returned, X is not busy, its lock is not held, and the session file holds
\* the state in memory: a new manager loads that same state.
C23_ReleasePersists ==
    last.op = "release" /\ sessions[last.ret[1]] # NoSession =>
        /\ ~last.raised
        /\ ~is_busy(last.ret[1])
        /\ ~locked(last.ret[1])
        /\ disk[last.ret[1]] = sessions[last.ret[1]]
        /\ _load_session(last.ret[1]) = Loaded(sessions[last.ret[1]])

\* what get_session of a chat not in memory is to return: the state of a
\* valid file, a fresh state otherwise
Expected(f) == IF f = NoSession \/ f = OnlyChatId \/ IsCorrupt(f) THEN SessionState ELSE f

\* C24: get_session of a chat not yet in memory never raises; it returns
\* the persisted state when the file is valid and a fresh empty state when
\* there is no file or the file is corrupt.
C24_GetSessionFallsBack ==
    [][last'.op = "get_session" /\ sessions[last'.ret[1]] = NoSession =>
          /\ ~last'.raised
          /\ sessions'[last'.ret[1]] = Expected(disk[last'.ret[1]])]_vars

\* the sessions in memory whose time since the last activity is over the TTL
ExpiredChats == {c \in Chats : sessions[c] # NoSession /\ is_expired(sessions[c])}

\* C25: a sweep in which the destroy of one expired session raises still
\* destroys every other expired session.
C25_SweepContinues ==
    [][last'.op = "cleanup_expired" =>
          \A c \in ExpiredChats : sessions'[c] = NoSession]_vars

\* C26: a sweep that returns has destroyed every session that was expired,
\* has left every other chat as it was, and returns the number destroyed.
C26_SweepDestroysExpired ==
    [][last'.op = "cleanup_expired" /\ ~last'.raised =>
          /\ \A c \in ExpiredChats :
                /\ sessions'[c] = NoSession
                /\ locks'[c] = "none"
                /\ c \notin busy'
                /\ disk'[c] = NoSession
                /\ c \notin containers'
          /\ \A c \in Chats \ ExpiredChats :
                /\ sessions'[c] = sessions[c]
                /\ locks'[c] = locks[c]
                /\ (c \in busy') = (c \in busy)
                /\ disk'[c] = disk[c]
                /\ (c \in containers') = (c \in containers)
          /\ last'.count = Cardinality(ExpiredChats)]_vars

\* a sweep destroyed one session and left another, not expired, in memory
C26_Witness ==
    /\ last.op = "cleanup_expired"
    /\ ~last.raised
    /\ last.count = 1
    /\ \E c \in Chats : sessions[c] # NoSession

\* C27: after destroy_session(X) returns, X has no state in memory, no lock
\* entry, no busy flag, no session file and no container.
C27_DestroyRemovesAll ==
    last.op = "destroy_session" /\ ~last.raised =>
        /\ sessions[last.ret[1]] = NoSession
        /\ last.ret[1] \notin Range(skeys)
        /\ locks[last.ret[1]] = "none"
        /\ ~is_busy(last.ret[1])
        /\ disk[last.ret[1]] = NoSession
        /\ last.ret[1] \notin containers

\* destroy_session returned for a chat that was acquired and not released
C27_Witness ==
    /\ last.op = "destroy_session"
    /\ ~last.raised
    /\ phase[last.ret[1]] = "destroyed"

(***************************************************************************)
(* The loop: alternating calls, malformed arguments, the log: C28 .. C30   *)
(***************************************************************************)

\* the call the loop is about to parse, and whether it is the call seen
\* before it
Upcoming == [name |-> batch[idx].name, args |-> ParseArgs(batch[idx].arguments)]
SameAsPrev(call) ==
    seen_prev # NoCall /\ seen_prev.name = call.name /\ DictEq(seen_prev.args, call.args)

\* C28: a call that differs from the one before it sets the repeat counter
\* to 1 and does not trip the breaker, and a run stops with REPEATED_CALL
\* only at a call equal to the one before it: never while the calls
\* alternate.
C28_OnlyConsecutiveCount ==
    /\ [][pc = "act" /\ ~SameAsPrev(Upcoming) =>
             /\ repeated_count' = 1
             /\ pc' = "dispatching"]_vars
    /\ [](pc = "done" /\ result.stop_reason = "REPEATED_CALL" => same_streak >= 2)

\* with max_repeated_calls = 2 a run made four calls, none equal to the one
\* before it, and ended at MAX_TURNS
C28_Witness ==
    /\ pc = "done"
    /\ max_repeated_calls = 2
    /\ n_dispatched = 4
    /\ same_streak = 1
    /\ result.stop_reason = "MAX_TURNS"

\* C29: a call whose argument string json.loads rejects is recorded with
\* {} as its arguments, goes through the repeated-call breaker and, unless
\* that trips, is dispatched with {}; run does not raise.
C29_MalformedIsEmpty ==
    /\ [][pc = "act" /\ ~batch[idx].arguments.valid =>
             /\ tool_calls_log' = tool_calls_log + 1
             /\ seen_prev' = [name |-> batch[idx].name, args |-> <<>>]
             /\ repeated_count' = IF SameAsPrev(seen_prev') THEN repeated_count + 1 ELSE 1
             /\ IF SameAsPrev(seen_prev') /\ repeated_count + 1 >= max_repeated_calls
                THEN pc' = "done" /\ result'.stop_reason = "REPEATED_CALL"
                ELSE /\ pc' = "dispatching"
                     /\ turn_dispatched' = Append(turn_dispatched, seen_prev')]_vars
    /\ [][pc = "dispatching" /\ ~batch[idx].arguments.valid =>
             /\ pc' \in {"act", "think", "done"}
             /\ n_counted' = n_counted + 1]_vars

\* a call with a malformed argument string is being dispatched with {}
C29_Witness ==
    /\ pc = "dispatching"
    /\ ~batch[idx].arguments.valid
    /\ seen_prev = [name |-> batch[idx].name, args |-> <<>>]
    /\ turn_dispatched # <<>>

\* C30: a run called with a chat id that has ended, whatever the stop
\* reason, has written one agent_stop event with the stop reason and the
\* turn count of its result.
C30_StopLogged ==
    pc = "done" /\ chat_id # None =>
        conv_log = <<[event |-> "agent_stop", stop_reason |-> result.stop_reason,
                      turns |-> result.turns]>>

(***************************************************************************)
(* The loop and a failing conversation log: C31                            *)
(***************************************************************************)

\* C31: a log write that raises does not change what run does: once the
\* model has answered, the run goes on to dispatch the calls and to
\* return its AgentResult, it never ends by raising.
C31_LogFailureHarmless ==
    [][(pc = "act" \/ pc = "dispatching") => pc' # "raised"]_vars

(***************************************************************************)
(* Sessions: a run that outlives its hold of the chat: C32 .. C34          *)
(***************************************************************************)

\* the handler invocations that acquired their chat and have not reached
\* their finally yet
InFlight(t) == hpc[t] \in {"typing", "run", "reply", "errreply"}

\* C32: the release at the end of a run ends that run's hold only: when a
\* newer request holds the chat (the older run's hold was ended by /stop or
\* by a destroy), the older run's release leaves the chat busy and its lock
\* held.  Handlers start in the order of their numbers, so of two in flight
\* on one busy chat the higher one holds it.
C32_ReleaseOwnHoldOnly ==
    [][\A t \in Tasks, u \in Tasks :
          (/\ t < u
           /\ hpc[t] \in {"reply", "errreply"} /\ hpc'[t] = "done"
           /\ InFlight(u) /\ hchat[u] = hchat[t]
           /\ is_busy(hchat[t]) /\ locked(hchat[t]))
          => (hchat[t] \in busy' /\ locks'[hchat[t]] = "held")]_vars

\* C33: a sweep leaves a busy chat as it is: its session, its lock, its
\* busy flag and its file.
C33_SweepSparesBusy ==
    [][\A c \in Chats :
          (is_busy(c) /\ last'.op = "cleanup_expired")
          => (/\ sessions'[c] = sessions[c]
              /\ locks'[c] = locks[c]
              /\ c \in busy'
              /\ disk'[c] = disk[c])]_vars

\* C34: once a chat was destroyed while it was held, and until it is
\* acquired again, it has no file on disk and no session in memory but an
\* empty one, whatever the run that held it does afterwards.
C34_DestroyedStaysFresh ==
    [][\A c \in Chats :
          (phase[c] = "destroyed" /\ disk[c] = NoSession /\ phase'[c] # "acquired")
          => (/\ disk'[c] = NoSession
              /\ sessions'[c] = NoSession \/ sessions'[c].messages = <<>>)]_vars

(***************************************************************************)
(* Sessions: acquire, the busy set and the locks: C35, C36                 *)
(***************************************************************************)

\* C35: acquire runs from its checks to its marks with no suspension, so
\* every call on a free chat returns (True, None) and every call on a chat
\* that is busy or locked returns (False, BUSY_MESSAGE): of two calls made
\* together on a free chat the first finds it free and the second finds it
\* marked.
C35_AcquireDecidesAtOnce ==
    [][\A c \in Chats :
          (last'.op \in {"acquire", "busy"} /\ last'.ret = <<c>>)
          => last' = IF AcquireSucceeds(c) THEN SessCall("acquire", c, FALSE)
                     ELSE SessCall("busy", c, FALSE)]_vars

\* C36: a chat is in the busy set exactly when it has a lock and the lock
\* is held.
C36_BusyIffHeld == \A c \in Chats : is_busy(c) <=> locked(c)

\* one chat was acquired, released and left with a free lock, the other
\* was acquired and then destroyed while a third call found it busy
C36_Witness ==
    /\ locks["c1"] = "free" /\ "c1" \notin busy
    /\ locks["c2"] = "none" /\ "c2" \notin busy
    /\ phase["c2"] = "destroyed"
    /\ last.op = "destroy_session"

(***************************************************************************)
(* Sessions: the handler's finally: C37                                    *)
(***************************************************************************)

\* C37: every handler that acquired its chat reaches its finally, whichever
\* of its awaited calls returns or raises, and its last step releases that
\* chat: the chat is then not busy and its lock not held.  So a busy chat
\* does not stay busy for ever.
C37_AcquireThenRelease ==
    /\ \A t \in Tasks : InFlight(t) ~> (hpc[t] = "done")
    /\ [][\A t \in Tasks :
             (InFlight(t) /\ hpc'[t] = "done")
             => (/\ hchat[t] \notin busy'
                 /\ locks'[hchat[t]] # "held"
                 /\ phase'[hchat[t]] = "released")]_vars
    /\ \A c \in Chats : is_busy(c) ~> ~is_busy(c)

\* two handlers acquired the two chats and both have released them
C37_Witness ==
    /\ \A t \in Tasks : hpc[t] = "done"
    /\ busy = {}
    /\ \A c \in Chats : phase[c] = "released" /\ locks[c] = "free"

(***************************************************************************)
(* Sessions: a call on one chat and the other chats: C38                   *)
(***************************************************************************)

PerChatOps == {"acquire", "busy", "release", "add_message", "set_context",
               "destroy_session"}

\* C38: acquire, release, add_message, set_context and destroy_session on a
\* chat leave the busy flag, the lock, the session and the file of every
\* other chat as they were, and acquire of a chat fails only when that chat
\* itself is busy or locked.
C38_OtherChatsUntouched ==
    /\ [][\A x \in Chats, y \in Chats :
             (y # x /\ last'.op \in PerChatOps /\ last'.ret = <<x>>)
             => (/\ is_busy(y) <=> y \in busy'
                 /\ locks'[y] = locks[y]
                 /\ sessions'[y] = sessions[y]
                 /\ disk'[y] = disk[y])]_vars
    /\ [][\A y \in Chats :
             (last'.op = "busy" /\ last'.ret = <<y>>) => (is_busy(y) \/ locked(y))]_vars

\* c2 is acquired while c1 is busy and holds a session with a context
C38_Witness ==
    /\ "c1" \in busy
    /\ sessions["c1"] # NoSession /\ sessions["c1"].context = "str"
    /\ last = SessCall("acquire", "c2", FALSE)

(***************************************************************************)
(* Skills: the registry's keys and the two refreshes: C39, C40             *)
(***************************************************************************)

\* C39: every skill of the registry is stored under its own name.
C39_StoredUnderOwnName ==
    \A k \in SkillNames : _registry[k] # NoSkill => _registry[k].name = k

\* the last call that changed the registry was a discover (refresh ends
\* with one) that returned, and only the contents of definition files of
\* registered skills changed since
OnlyContentsChanged == last.op \in {"discover", "refresh", "touch"}

\* the registry refresh_changed leaves is one a full refresh can leave
SameAsRefresh ==
    \E scan \in ScanOrders :
        refresh_changed(Manager, _skill_paths, <<>>).M.reg
            = discover(clear_cache, scan, <<>>).M.reg

\* every skill of the registry was loaded from the directory it is tracked
\* under, with the tier of that directory, and the directory still holds a
\* definition file of that name
AllFromDirs ==
    \A k \in SkillNames :
        _registry[k] # NoSkill =>
            LET d == PathOf(_skill_paths, k)
            IN /\ d # NoPath
               /\ _registry[k].path = d
               /\ _registry[k].source = DirSource(d)
               /\ fs[d].kind = "ok" /\ fs[d].name = k

\* C40: when only the contents of registered skills' files changed since
\* the last discover, refresh_changed leaves the registry a full refresh
\* would leave; stated for a registry whose skills were all loaded from the
\* directories they are tracked under.
C40_SameAsRefresh == (OnlyContentsChanged /\ AllFromDirs) => SameAsRefresh

=============================================================================
